---- MODULE Spec2Model ----
(***************************************************************************)
(* Thread-per-device architecture of pokeys-thread: the shared state       *)
(* container (state.rs), the device worker thread (worker.rs, sync.rs),    *)
(* the worker builder (builder.rs) and the thread controller               *)
(* (controller.rs).                                                        *)
(*                                                                         *)
(* Three specifications share the definitions below:                       *)
(*   SpecState   one SharedDeviceState driven through its public API;      *)
(*   SpecWorker  one DeviceWorker built by ThreadWorkerBuilder and driven  *)
(*               through the DeviceWorker trait;                           *)
(*   Spec        the ThreadController with its registry of workers.        *)
(*                                                                         *)
(* The device transport (pokeys_lib) is an external collaborator: every    *)
(* call on it either succeeds or fails, chosen nondeterministically; a     *)
(* call that names a pin outside the device's pin array always fails.      *)
(***************************************************************************)
EXTENDS Integers, Sequences, FiniteSets, TLC

(***************************************************************************)
(* Bounds of the model.                                                    *)
(***************************************************************************)
\* thread ids the controller hands out in one behaviour
MaxThreads == 2
\* commands callers enqueue in one behaviour (Terminate sent by stop/stop_all is extra)
MaxSent == 2
\* length of the pin array of a device
NumPins == 1
\* notifications an observer may leave unread before the model stops producing more
MaxNotes == 2
\* observers created on one shared state in one behaviour
MaxObservers == 1
\* observers created one after the other on one Shared State
MaxSubscribers == 2
\* length of the encoder array of a device
NumEncoders == 1
\* intermediate channels made for one worker by start_model_monitoring
MaxMonitorStarts == 2

(***************************************************************************)
(* Program constants.                                                      *)
(***************************************************************************)
\* the PWM channels of a device: the worker maps channels 0..5 to pins 22..17
NumPwm == 6

ThreadIds == 1..MaxThreads
Pins == 1..NumPins
\* USB device indices a caller may name
DeviceIndices == {0, 1}
\* capability models; NoModel is the `model: None` of DeviceState::new
NoModel == 0
Models == {1, 2}

NoError == "none"

(***************************************************************************)
(* state.rs: DeviceState and SharedDeviceState.  A shared state is a       *)
(* record: the two atomics, the lock-guarded DeviceState fields, and the   *)
(* notification channels of the observers created so far (obs); the        *)
(* sender kept in notification_tx is the one of the last channel.          *)
(***************************************************************************)
PinData == [digital_value_get |-> 0, digital_value_set |-> 0, analog_value |-> 0]

\* DeviceState::new followed by the update in DeviceWorkerImpl::new
NewSharedState ==
    [running |-> FALSE, paused |-> FALSE,
     pins |-> [p \in Pins |-> PinData],
     encoders |-> [i \in 0..(NumEncoders - 1) |-> 0],
     pwm |-> [c \in 0..(NumPwm - 1) |-> 0],
     model |-> NoModel,
     error_message |-> NoError,
     custom_values |-> << >>,
     obs |-> << >>]

\* StateChangeType: one record shape for every variant
Note(type, idx, val, flag, text) ==
    [type |-> type, idx |-> idx, val |-> val, flag |-> flag, text |-> text]
FullUpdate == Note("FullUpdate", 0, 0, FALSE, "")
ThreadStatusNote(st) == Note("ThreadStatus", 0, 0, FALSE, st)
ErrorNote(msg) == Note("Error", 0, 0, FALSE, msg)
DigitalInputNote(pin, value) == Note("DigitalInput", pin, 0, value, "")
DigitalOutputNote(pin, value) == Note("DigitalOutput", pin, 0, value, "")
AnalogInputNote(pin, value) == Note("AnalogInput", pin, value, FALSE, "")
AnalogOutputNote(pin, value) == Note("AnalogOutput", pin, value, FALSE, "")
EncoderValueNote(index, value) == Note("EncoderValue", index, value, FALSE, "")
PwmDutyCycleNote(channel, duty) == Note("PwmDutyCycle", channel, duty, FALSE, "")
CustomValueNote(key, value) == Note("CustomValue", 0, value, FALSE, key)

\* SharedDeviceState::setup_notifications: a new channel replaces the sender
setup_notifications(s) == [s EXCEPT !.obs = Append(@, << >>)]

\* notify over a list of senders: every subscribed channel receives the message
notify_broadcasting(s, n) ==
    [s EXCEPT !.obs = [o \in DOMAIN s.obs |-> Append(s.obs[o], n)]]

\* SharedDeviceState::notify: send on the current sender, if any
notify(s, n) ==
    IF s.obs = << >> THEN s
    ELSE [s EXCEPT !.obs[Len(s.obs)] = Append(@, n)]

status_paused_first(s) ==
    IF s.paused THEN "Paused"
    ELSE IF ~s.running THEN "Stopped"
    ELSE "Running"

\* SharedDeviceState::status
status(s) ==
    IF ~s.running THEN "Stopped"
    ELSE IF s.paused THEN "Paused"
    ELSE "Running"

\* SharedDeviceState::set_running
set_running(s, b) ==
    LET s2 == [s EXCEPT !.running = b]
    IN  IF status(s) # status(s2) THEN notify(s2, ThreadStatusNote(status(s2))) ELSE s2

\* set_paused without the comparison of the status before and after
set_paused_always_notifying(s, b) ==
    LET s2 == [s EXCEPT !.paused = b]
    IN  notify(s2, ThreadStatusNote(status(s2)))

\* SharedDeviceState::set_paused
set_paused(s, b) ==
    LET s2 == [s EXCEPT !.paused = b]
    IN  IF status(s) # status(s2) THEN notify(s2, ThreadStatusNote(status(s2))) ELSE s2

\* update without the FullUpdate notification
update_without_notification(s) == s

\* SharedDeviceState::update, applied to the state the closure produced
update(s) == notify(s, FullUpdate)

\* SharedDeviceState::set_digital_output
set_digital_output(s, pin, value) ==
    update(IF pin > 0 /\ pin <= Len(s.pins)
           THEN notify([s EXCEPT !.pins[pin].digital_value_set = IF value THEN 1 ELSE 0],
                       DigitalOutputNote(pin, value))
           ELSE s)

\* SharedDeviceState::set_analog_output
set_analog_output(s, pin, value) ==
    update(IF pin > 0 /\ pin <= Len(s.pins)
           THEN notify([s EXCEPT !.pins[pin].analog_value = value],
                       AnalogOutputNote(pin, value))
           ELSE s)

\* set_pwm_duty_cycle notifying without the check of the channel
set_pwm_duty_cycle_unchecked(s, channel, duty) ==
    update(notify(IF channel < Cardinality(DOMAIN s.pwm)
                  THEN [s EXCEPT !.pwm[channel] = duty] ELSE s,
                  PwmDutyCycleNote(channel, duty)))

\* set_pwm_duty_cycle notifying only when the stored duty changes
set_pwm_duty_cycle_on_change(s, channel, duty) ==
    update(IF channel < Cardinality(DOMAIN s.pwm)
           THEN IF s.pwm[channel] # duty
                THEN notify([s EXCEPT !.pwm[channel] = duty], PwmDutyCycleNote(channel, duty))
                ELSE s
           ELSE s)

\* SharedDeviceState::set_pwm_duty_cycle
set_pwm_duty_cycle(s, channel, duty) ==
    update(IF channel < Cardinality(DOMAIN s.pwm)
           THEN notify([s EXCEPT !.pwm[channel] = duty], PwmDutyCycleNote(channel, duty))
           ELSE s)

\* Option<T>: None, and Some(v)
None == [some |-> FALSE]
Some(v) == [some |-> TRUE, value |-> v]

\* DeviceState::get_digital_input, pins numbered from 1
get_digital_input(s, pin) ==
    IF pin = 0 \/ pin > Len(s.pins) THEN None
    ELSE Some(s.pins[pin].digital_value_get # 0)

\* DeviceState::get_analog_input, pins numbered from 1
get_analog_input(s, pin) ==
    IF pin = 0 \/ pin > Len(s.pins) THEN None
    ELSE Some(s.pins[pin].analog_value)

\* DeviceState::get_encoder_value, encoders numbered from 0
get_encoder_value(s, encoder_index) ==
    IF encoder_index >= Cardinality(DOMAIN s.encoders) THEN None
    ELSE Some(s.encoders[encoder_index])

\* DeviceState::get_pwm_duty_cycle, channels numbered from 0
get_pwm_duty_cycle(s, channel) ==
    IF channel >= Cardinality(DOMAIN s.pwm) THEN None
    ELSE Some(s.pwm[channel])

\* SharedDeviceState::set_custom_value; custom_values maps keys to values
set_custom_value(s, key, value) ==
    update(notify([s EXCEPT !.custom_values =
                       [k \in DOMAIN @ \cup {key} |-> IF k = key THEN value ELSE @[k]]],
                  CustomValueNote(key, value)))

\* SharedDeviceState::get_custom_value; 0 is None
get_custom_value(s, key) ==
    IF key \in DOMAIN s.custom_values THEN s.custom_values[key] ELSE 0

\* SharedDeviceState::set_error
set_error(s, msg) ==
    update(notify([s EXCEPT !.error_message = msg], ErrorNote(msg)))

\* the closure `state.error_message = Some(..)` passed to update() by the worker
record_error(s, msg) == update([s EXCEPT !.error_message = msg])

(***************************************************************************)
(* The device handle (pokeys_lib::PoKeysDevice) as the worker uses it: the *)
(* descriptor it was opened with, the attached model and the pin, encoder  *)
(* and PWM data the library caches in the handle.                          *)
(***************************************************************************)
NoDevice == [open |-> FALSE, index |-> 0, model |-> NoModel,
             pins |-> [p \in Pins |-> PinData],
             encoders |-> [i \in 0..(NumEncoders - 1) |-> 0],
             pwm |-> [c \in 0..(NumPwm - 1) |-> 0]]

\* connect_to_device(index), successful: a fresh handle without a model
connect_to_device(index) == [NoDevice EXCEPT !.open = TRUE, !.index = index]

\* update_from_device that copies the inputs and keeps the outputs set before
update_from_device_inputs_only(s, d) ==
    [s EXCEPT !.model = d.model,
              !.pins = [p \in DOMAIN s.pins |->
                           [d.pins[p] EXCEPT !.digital_value_set = s.pins[p].digital_value_set]],
              !.encoders = d.encoders]

\* DeviceState::update_from_device
update_from_device(s, d) ==
    [s EXCEPT !.model = d.model, !.pins = d.pins, !.encoders = d.encoders, !.pwm = d.pwm]

\* the notifications of one pin in update_from_device_with_notifications
PinNotes(old, new, p) ==
    (IF old[p].digital_value_get # new[p].digital_value_get
     THEN << DigitalInputNote(p, new[p].digital_value_get # 0) >> ELSE << >>)
    \o (IF old[p].digital_value_set # new[p].digital_value_set
        THEN << DigitalOutputNote(p, new[p].digital_value_set # 0) >> ELSE << >>)
    \o (IF old[p].analog_value # new[p].analog_value
        THEN << AnalogInputNote(p, new[p].analog_value) >> ELSE << >>)

RECURSIVE PinsNotes(_, _, _)
PinsNotes(old, new, p) ==
    IF p > Len(old) \/ p > Len(new) THEN << >>
    ELSE PinNotes(old, new, p) \o PinsNotes(old, new, p + 1)

RECURSIVE EncoderNotes(_, _, _)
EncoderNotes(old, new, i) ==
    IF i \notin DOMAIN old \/ i \notin DOMAIN new THEN << >>
    ELSE (IF old[i] # new[i] THEN << EncoderValueNote(i, new[i]) >> ELSE << >>)
         \o EncoderNotes(old, new, i + 1)

RECURSIVE PwmNotes(_, _, _)
PwmNotes(old, new, c) ==
    IF c \notin DOMAIN old \/ c \notin DOMAIN new THEN << >>
    ELSE (IF old[c] # new[c] THEN << PwmDutyCycleNote(c, new[c]) >> ELSE << >>)
         \o PwmNotes(old, new, c + 1)

RECURSIVE notify_all(_, _)
notify_all(s, notes) ==
    IF notes = << >> THEN s ELSE notify_all(notify(s, Head(notes)), Tail(notes))

update_from_device_without_snapshot(s, d) ==
    LET s2 == update(update_from_device(s, d))
    IN  notify_all(s2, PinsNotes(s2.pins, s2.pins, 1)
                       \o EncoderNotes(s2.encoders, s2.encoders, 0)
                       \o PwmNotes(s2.pwm, s2.pwm, 0))

\* SharedDeviceState::update_from_device_with_notifications
update_from_device_with_notifications(s, d) ==
    LET s2 == update(update_from_device(s, d))
    IN  notify_all(s2, PinsNotes(s.pins, s2.pins, 1)
                       \o EncoderNotes(s.encoders, s2.encoders, 0)
                       \o PwmNotes(s.pwm, s2.pwm, 0))

(***************************************************************************)
(* sync.rs: DeviceSync::sync.  The hardware is the environment: hw holds   *)
(* the values its inputs have (digital and analog per pin, a count per     *)
(* encoder), and the outcome of the reads is "ok", "digital"               *)
(* (get_digital_inputs failed), "analog" (read_analog_inputs failed) or    *)
(* "encoder" (the read of encoder 0 failed).  A read that succeeds stores  *)
(* what it read in the handle.  The result is the new shared state, the    *)
(* new handle and whether sync returned Ok.                                *)
(***************************************************************************)
SyncOutcomes == {"ok", "digital", "analog"} \cup (IF NumEncoders > 0 THEN {"encoder"} ELSE {})

MsgSyncDigital == "Failed to refresh digital inputs"
MsgSyncAnalog == "Failed to refresh analog inputs"
MsgSyncEncoder == "Failed to refresh encoder"

\* the values the hardware inputs can take
InputValues == {0, 1}
HardwareInputs ==
    [digital : [Pins -> InputValues], analog : [Pins -> InputValues],
     encoders : [0..(NumEncoders - 1) -> InputValues]]

\* hardware whose inputs are what the handle d read last
Quiescent(d) ==
    [digital |-> [p \in Pins |-> d.pins[p].digital_value_get],
     analog |-> [p \in Pins |-> d.pins[p].analog_value],
     encoders |-> d.encoders]

\* PoKeysDevice::get_digital_inputs, successful
get_digital_inputs(d, hw) ==
    [d EXCEPT !.pins = [p \in Pins |-> [d.pins[p] EXCEPT !.digital_value_get = hw.digital[p]]]]

\* PoKeysDevice::read_analog_inputs, successful
read_analog_inputs(d, hw) ==
    [d EXCEPT !.pins = [p \in Pins |-> [d.pins[p] EXCEPT !.analog_value = hw.analog[p]]]]

\* the loop over PoKeysDevice::get_encoder_value; a failed read leaves the count
get_encoder_values(d, hw, outcome) ==
    [d EXCEPT !.encoders = [i \in DOMAIN d.encoders |->
                               IF outcome = "encoder" /\ i = 0 THEN d.encoders[i]
                               ELSE hw.encoders[i]]]

sync(s, d, hw, outcome) ==
    IF outcome = "digital"
    THEN [ss |-> set_error(s, MsgSyncDigital), device |-> d, ok |-> FALSE]
    ELSE LET d1 == get_digital_inputs(d, hw)
         IN  IF outcome = "analog"
             THEN [ss |-> set_error(s, MsgSyncAnalog), device |-> d1, ok |-> FALSE]
             ELSE LET d2 == get_encoder_values(read_analog_inputs(d1, hw), hw, outcome)
                      s1 == IF outcome = "encoder" THEN set_error(s, MsgSyncEncoder) ELSE s
                  IN  [ss |-> update_from_device_with_notifications(s1, d2),
                       device |-> d2, ok |-> TRUE]

(***************************************************************************)
(* commands.rs: DeviceCommand.  One record shape for every variant; seq is *)
(* the position of the command among all commands enqueued so far.         *)
(***************************************************************************)
Cmd(k, idx, val, flag) == [k |-> k, idx |-> idx, val |-> val, flag |-> flag, seq |-> 0]
Terminate == Cmd("Terminate", 0, 0, FALSE)

\* Start, Pause, Terminate, Restart
LifecycleCommands ==
    {Cmd(k, 0, 0, FALSE) : k \in {"Start", "Pause", "Terminate", "Restart"}}

\* the commands callers send in SpecWorker: the lifecycle verbs, the three
\* setters with a valid and an invalid index, a servo command, an encoder
\* configuration whose pin A does not fit u8, and a model update
CallerCommands ==
    LifecycleCommands
    \cup {Cmd("SetDigitalOutput", p, 0, TRUE) : p \in {1, NumPins + 1}}
    \cup {Cmd("SetAnalogOutput", 1, 1, FALSE)}
    \cup {Cmd("SetPwmDuty", c, 1, FALSE) : c \in {0, NumPwm}}
    \cup {Cmd("SetServoAngle", 22, 90, FALSE)}
    \cup {Cmd("ConfigureEncoder", 0, 256, FALSE)}
    \cup {Cmd("UpdateModel", m, 0, FALSE) : m \in Models}

MsgConnect == "Failed to connect to device"
MsgInitialSync == "Failed to perform initial sync"
MsgSetDigitalOutput == "Failed to set digital output"
MsgSetAnalogOutput == "Failed to set analog output"
MsgSetPwmDuty == "Failed to set PWM duty cycle"
MsgPinA == "Pin A value is out of range for u8"
MsgConfigureEncoder == "Failed to configure encoder"
MsgReconnect == "Failed to reconnect to device"

(***************************************************************************)
(* The device calls the worker makes for a command.  ok is the transport's *)
(* answer; a pin outside the handle's pin array is rejected.  A successful *)
(* set is cached in the handle.                                            *)
(***************************************************************************)
\* PoKeysDevice::set_digital_output
device_set_digital_output(d, pin, value, ok) ==
    IF ok /\ pin > 0 /\ pin <= Len(d.pins)
    THEN [ok |-> TRUE, device |-> [d EXCEPT !.pins[pin].digital_value_set = IF value THEN 1 ELSE 0]]
    ELSE [ok |-> FALSE, device |-> d]

\* PoKeysDevice::set_analog_output
device_set_analog_output(d, pin, value, ok) ==
    IF ok /\ pin > 0 /\ pin <= Len(d.pins)
    THEN [ok |-> TRUE, device |-> [d EXCEPT !.pins[pin].analog_value = value]]
    ELSE [ok |-> FALSE, device |-> d]

\* PoKeysDevice::set_pwm_duty_cycle_for_pin: pins 17..22 are channels 5..0
device_set_pwm_duty_cycle_for_pin(d, pin, duty, ok) ==
    IF ok /\ (22 - pin) \in DOMAIN d.pwm
    THEN [ok |-> TRUE, device |-> [d EXCEPT !.pwm[22 - pin] = duty]]
    ELSE [ok |-> FALSE, device |-> d]

\* the result of applying a command: the new shared state and handle, where
\* the loop goes next, and whether a call on the handle failed
Applied(s, d, flow, fail) == [ss |-> s, device |-> d, flow |-> flow, fail |-> fail]

ApplySetDigitalOutputEchoAlways(s, d, c, ok) ==
    LET r == device_set_digital_output(d, c.idx, c.flag, ok)
    IN  IF r.ok
        THEN Applied(set_digital_output(s, c.idx, c.flag), r.device, "next", FALSE)
        ELSE Applied(record_error(set_digital_output(s, c.idx, c.flag), MsgSetDigitalOutput),
                     d, "next", TRUE)

\* run_thread, SetDigitalOutput arm
ApplySetDigitalOutput(s, d, c, ok) ==
    LET r == device_set_digital_output(d, c.idx, c.flag, ok)
    IN  IF r.ok
        THEN Applied(set_digital_output(s, c.idx, c.flag), r.device, "next", FALSE)
        ELSE Applied(record_error(s, MsgSetDigitalOutput), d, "next", TRUE)

\* run_thread, SetAnalogOutput arm
ApplySetAnalogOutput(s, d, c, ok) ==
    LET r == device_set_analog_output(d, c.idx, c.val, ok)
    IN  IF r.ok
        THEN Applied(set_analog_output(s, c.idx, c.val), r.device, "next", FALSE)
        ELSE Applied(record_error(s, MsgSetAnalogOutput), d, "next", TRUE)

\* run_thread, SetPwmDuty arm: an invalid channel is logged and the loop continues
ApplySetPwmDuty(s, d, c, ok) ==
    IF c.idx > 5 THEN Applied(s, d, "continue", FALSE)
    ELSE LET r == device_set_pwm_duty_cycle_for_pin(d, 22 - c.idx, c.val, ok)
         IN  IF r.ok
             THEN Applied(set_pwm_duty_cycle(s, c.idx, c.val), r.device, "next", FALSE)
             ELSE Applied(record_error(s, MsgSetPwmDuty), d, "next", TRUE)

\* run_thread, SetServoAngle arm: the angle becomes a duty; a failure is only logged
ApplySetServoAngle(s, d, c, ok) ==
    LET duty == (c.val * 4095) \div 180
        r == device_set_pwm_duty_cycle_for_pin(d, c.idx, duty, ok)
    IN  Applied(s, r.device, "next", ~r.ok)

\* run_thread, ConfigureEncoder arm: pin A and pin B must fit u8
ApplyConfigureEncoder(s, d, c, ok) ==
    IF c.val > 255 THEN Applied(record_error(s, MsgPinA), d, "continue", FALSE)
    ELSE IF ok THEN Applied(s, d, "next", FALSE)
    ELSE Applied(record_error(s, MsgConfigureEncoder), d, "next", TRUE)

\* run_thread, UpdateModel arm up to the reconnect: the model is attached to
\* the handle and to the shared state and the worker is paused
ApplyUpdateModel(s, d, c) ==
    Applied(set_paused(update([s EXCEPT !.model = c.idx]), TRUE),
            [d EXCEPT !.model = c.idx], "reconnect", FALSE)

TerminateKeepsLooping(s, d) == Applied(set_running(s, FALSE), d, "next", FALSE)

\* run_thread, Terminate arm
ApplyTerminate(s, d) == Applied(set_running(s, FALSE), d, "break", FALSE)

\* the match with a Start/Restart arm that sets running and leaves paused alone
apply_start_keeping_pause(s, d, c, ok) ==
    CASE c.k = "Terminate" -> ApplyTerminate(s, d)
      [] c.k = "Pause" -> Applied(set_paused(s, TRUE), d, "next", FALSE)
      [] c.k \in {"Start", "Restart"} -> Applied(set_running(s, TRUE), d, "next", FALSE)
      [] c.k = "SetDigitalOutput" -> ApplySetDigitalOutput(s, d, c, ok)
      [] c.k = "SetAnalogOutput" -> ApplySetAnalogOutput(s, d, c, ok)
      [] c.k = "SetPwmDuty" -> ApplySetPwmDuty(s, d, c, ok)
      [] c.k = "SetServoAngle" -> ApplySetServoAngle(s, d, c, ok)
      [] c.k = "ConfigureEncoder" -> ApplyConfigureEncoder(s, d, c, ok)
      [] c.k = "UpdateModel" -> ApplyUpdateModel(s, d, c)
      [] OTHER -> Applied(s, d, "next", FALSE)

\* run_thread, the match on the received command
apply(s, d, c, ok) ==
    CASE c.k = "Terminate" -> ApplyTerminate(s, d)
      [] c.k = "Pause" -> Applied(set_paused(s, TRUE), d, "next", FALSE)
      [] c.k \in {"Start", "Restart"} ->
            Applied(set_paused(set_running(s, TRUE), FALSE), d, "next", FALSE)
      [] c.k = "SetDigitalOutput" -> ApplySetDigitalOutput(s, d, c, ok)
      [] c.k = "SetAnalogOutput" -> ApplySetAnalogOutput(s, d, c, ok)
      [] c.k = "SetPwmDuty" -> ApplySetPwmDuty(s, d, c, ok)
      [] c.k = "SetServoAngle" -> ApplySetServoAngle(s, d, c, ok)
      [] c.k = "ConfigureEncoder" -> ApplyConfigureEncoder(s, d, c, ok)
      [] c.k = "UpdateModel" -> ApplyUpdateModel(s, d, c)
      [] OTHER -> Applied(s, d, "next", FALSE)

\* commands whose arm calls into the device handle
CallsDevice(c) ==
    \/ c.k \in {"SetDigitalOutput", "SetAnalogOutput", "SetServoAngle"}
    \/ c.k = "SetPwmDuty" /\ c.idx <= 5
    \/ c.k = "ConfigureEncoder" /\ c.val <= 255

try_recv_newest(q) == [msg |-> q[Len(q)], rest |-> SubSeq(q, 1, Len(q) - 1)]

\* crossbeam Receiver::try_recv on a non-empty channel: the oldest message
try_recv(q) == [msg |-> Head(q), rest |-> Tail(q)]

AfterCommandIgnoringPause(s) == "sync"

\* run_thread, `if shared_state.status() == ThreadStatus::Paused { sleep; continue }`
AfterCommand(s) == IF status(s) = "Paused" THEN "loop" ELSE "sync"

(***************************************************************************)
(* State.                                                                  *)
(***************************************************************************)
VARIABLES
    ss,             \* thread id -> SharedDeviceState of the worker
    worker,         \* thread id -> "none" | "alive" | "dropped": the DeviceWorkerImpl (owner of command_tx)
    device_type,    \* thread id -> the stored device descriptor (USB index)
    thread_handle,  \* thread id -> "none" | "some" | "joined": Option<JoinHandle>
    cmdq,           \* thread id -> the messages in the command channel
    pc,             \* thread id -> position of the worker thread in run_thread
    device,         \* thread id -> the device handle owned by the worker thread
    threads,        \* ThreadControllerImpl.threads: the registered ids
    next_thread_id, \* ThreadControllerImpl.next_thread_id
    ctl,            \* the call the owner of the workers is blocked in
    ret,            \* the last result returned to the owner
    nsent,          \* number of commands enqueued so far
    sentTo,         \* thread id -> the commands accepted by its channel, in order
    applied,        \* thread id -> the commands the worker thread has applied, in order
    last,           \* thread id -> what the last step of the worker thread did
    termK,          \* thread id -> k+1 for the first Terminate enqueued on the live worker (0: none)
    termTicks,      \* thread id -> loop iterations started since that Terminate was enqueued
    attempts,       \* thread id -> connection attempts made by the worker thread
    handles,        \* thread id -> the most handles of its device that were live at once so far
    model_monitors, \* ThreadControllerImpl.model_monitors: thread id -> 0, or the number of
                    \* the relay channel its stored monitor sends on
    relay,          \* thread id -> the intermediate channels made for it, in order of creation
    now,            \* the time read by Instant::now()
    device_sync     \* thread id -> the DeviceSync of the worker thread: last_sync, sync_interval

vars == << ss, worker, device_type, thread_handle, cmdq, pc, device, threads,
           next_thread_id, ctl, ret, nsent, sentTo, applied, last, termK, termTicks,
           attempts, handles, model_monitors, relay, now, device_sync >>

workerVars == << worker, device_type, thread_handle, cmdq, pc, device, threads,
                 next_thread_id, ctl, ret, nsent, sentTo, applied, last, termK, termTicks,
                 attempts, handles, model_monitors, relay, now, device_sync >>

Idle == [op |-> "idle", id |-> 0]
Max2(a, b) == IF a >= b THEN a ELSE b
Ret(op, id, res) == [op |-> op, id |-> id, res |-> res]
Last(step, fail) == [step |-> step, fail |-> fail]

Init ==
    /\ ss = [t \in ThreadIds |-> NewSharedState]
    /\ worker = [t \in ThreadIds |-> "none"]
    /\ device_type = [t \in ThreadIds |-> 0]
    /\ thread_handle = [t \in ThreadIds |-> "none"]
    /\ cmdq = [t \in ThreadIds |-> << >>]
    /\ pc = [t \in ThreadIds |-> "none"]
    /\ device = [t \in ThreadIds |-> NoDevice]
    /\ threads = {}
    /\ next_thread_id = 1
    /\ ctl = Idle
    /\ ret = Ret("none", 0, "Ok")
    /\ nsent = 0
    /\ sentTo = [t \in ThreadIds |-> << >>]
    /\ applied = [t \in ThreadIds |-> << >>]
    /\ last = [t \in ThreadIds |-> Last("none", FALSE)]
    /\ termK = [t \in ThreadIds |-> 0]
    /\ termTicks = [t \in ThreadIds |-> 0]
    /\ attempts = [t \in ThreadIds |-> 0]
    /\ handles = [t \in ThreadIds |-> 0]
    /\ model_monitors = [t \in ThreadIds |-> 0]
    /\ relay = [t \in ThreadIds |-> << >>]
    /\ now = 0
    /\ device_sync = [t \in ThreadIds |-> [last_sync |-> 0, sync_interval |-> 0]]

\* the worker thread holds the receiver from spawn until run_thread returns
ReceiverAlive(t) == pc[t] \notin {"none", "done"}
\* the thread is past its connect and has not left the loop
Live(t) == pc[t] \in {"init_sync", "loop", "reconnect", "sync"}
\* the DeviceWorkerImpl holds the only sender of the command channel
SenderAlive(t) == worker[t] = "alive"

(***************************************************************************)
(* worker.rs: DeviceWorkerImpl::run_thread, one action per step.           *)
(***************************************************************************)
\* run_thread going on into its loop after a failed connection
WorkerConnectFailureEntersLoop(t) ==
    /\ pc[t] = "connect"
    /\ attempts' = [attempts EXCEPT ![t] = @ + 1]
    /\ \E ok \in BOOLEAN :
          IF ok
          THEN /\ device' = [device EXCEPT ![t] = connect_to_device(device_type[t])]
               /\ handles' = [handles EXCEPT ![t] = Max2(@, 1)]
               /\ ss' = [ss EXCEPT ![t] = set_paused(set_running(@, TRUE), FALSE)]
               /\ pc' = [pc EXCEPT ![t] = "init_sync"]
               /\ last' = [last EXCEPT ![t] = Last("connect", FALSE)]
          ELSE /\ device' = device
               /\ handles' = handles
               /\ ss' = [ss EXCEPT ![t] = set_running(record_error(@, MsgConnect), FALSE)]
               /\ pc' = [pc EXCEPT ![t] = "loop"]
               /\ last' = [last EXCEPT ![t] = Last("connect", TRUE)]
    /\ UNCHANGED << worker, device_type, thread_handle, cmdq, threads, next_thread_id,
                    ctl, ret, nsent, sentTo, applied, termK, termTicks, model_monitors,
                    relay, now, device_sync >>

\* connect_to_device at the top of run_thread
WorkerConnect(t) ==
    /\ pc[t] = "connect"
    /\ attempts' = [attempts EXCEPT ![t] = @ + 1]
    /\ \E ok \in BOOLEAN :
          IF ok
          THEN /\ device' = [device EXCEPT ![t] = connect_to_device(device_type[t])]
               /\ handles' = [handles EXCEPT ![t] = Max2(@, 1)]
               /\ ss' = [ss EXCEPT ![t] = set_paused(set_running(@, TRUE), FALSE)]
               /\ pc' = [pc EXCEPT ![t] = "init_sync"]
               /\ last' = [last EXCEPT ![t] = Last("connect", FALSE)]
          ELSE /\ device' = device
               /\ handles' = handles
               /\ ss' = [ss EXCEPT ![t] = set_running(record_error(@, MsgConnect), FALSE)]
               /\ pc' = [pc EXCEPT ![t] = "done"]
               /\ last' = [last EXCEPT ![t] = Last("connect", TRUE)]
    /\ UNCHANGED << worker, device_type, thread_handle, cmdq, threads, next_thread_id,
                    ctl, ret, nsent, sentTo, applied, termK, termTicks, model_monitors,
                    relay, now, device_sync >>

\* the initial sync before the main loop
WorkerInitialSync(t, outcomes, inputs) ==
    /\ pc[t] = "init_sync"
    /\ \E o \in outcomes, hw \in inputs :
          LET r == sync(ss[t], device[t], hw, o)
          IN  /\ ss' = [ss EXCEPT ![t] = IF r.ok THEN r.ss
                                         ELSE record_error(r.ss, MsgInitialSync)]
              /\ device' = [device EXCEPT ![t] = r.device]
              /\ last' = [last EXCEPT ![t] = Last("sync", o # "ok")]
    /\ pc' = [pc EXCEPT ![t] = "loop"]
    /\ UNCHANGED << worker, device_type, thread_handle, cmdq, threads,
                    next_thread_id, ctl, ret, nsent, sentTo, applied, termK, termTicks,
                    attempts, handles, model_monitors, relay, now, device_sync >>

\* a loop that leaves on Terminate only once the channel is drained
WorkerRecvDraining(t) ==
    /\ pc[t] = "loop"
    /\ cmdq[t] # << >>
    /\ LET m == try_recv(cmdq[t]) IN
       /\ cmdq' = [cmdq EXCEPT ![t] = m.rest]
       /\ applied' = [applied EXCEPT ![t] = Append(@, m.msg)]
       /\ \E ok \in (IF CallsDevice(m.msg) THEN BOOLEAN ELSE {TRUE}) :
             LET r == apply(ss[t], device[t], m.msg, ok)
             IN  /\ ss' = [ss EXCEPT ![t] = r.ss]
                 /\ device' = [device EXCEPT ![t] = r.device]
                 /\ last' = [last EXCEPT ![t] = Last("cmd", r.fail)]
                 /\ pc' = [pc EXCEPT ![t] =
                              CASE r.flow = "break" /\ m.rest = << >> -> "done"
                                [] r.flow = "break" -> "loop"
                                [] r.flow = "continue" -> "loop"
                                [] r.flow = "reconnect" -> "reconnect"
                                [] OTHER -> AfterCommand(r.ss)]
    /\ termTicks' = [termTicks EXCEPT ![t] = IF termK[t] > 0 THEN @ + 1 ELSE @]
    /\ UNCHANGED << worker, device_type, thread_handle, threads, next_thread_id, ctl,
                    ret, nsent, sentTo, termK, attempts, handles, model_monitors, relay, now, device_sync >>

\* a loop that checks for the pause before it looks at the channel
WorkerRecvUnlessPaused(t) ==
    /\ pc[t] = "loop"
    /\ status(ss[t]) # "Paused"
    /\ cmdq[t] # << >>
    /\ LET m == try_recv(cmdq[t]) IN
       /\ cmdq' = [cmdq EXCEPT ![t] = m.rest]
       /\ applied' = [applied EXCEPT ![t] = Append(@, m.msg)]
       /\ \E ok \in (IF CallsDevice(m.msg) THEN BOOLEAN ELSE {TRUE}) :
             LET r == apply(ss[t], device[t], m.msg, ok)
             IN  /\ ss' = [ss EXCEPT ![t] = r.ss]
                 /\ device' = [device EXCEPT ![t] = r.device]
                 /\ last' = [last EXCEPT ![t] = Last("cmd", r.fail)]
                 /\ pc' = [pc EXCEPT ![t] =
                              CASE r.flow = "break" -> "done"
                                [] r.flow = "continue" -> "loop"
                                [] r.flow = "reconnect" -> "reconnect"
                                [] OTHER -> AfterCommand(r.ss)]
    /\ termTicks' = [termTicks EXCEPT ![t] = IF termK[t] > 0 THEN @ + 1 ELSE @]
    /\ UNCHANGED << worker, device_type, thread_handle, threads, next_thread_id, ctl,
                    ret, nsent, sentTo, termK, attempts, handles, model_monitors, relay, now, device_sync >>

\* one loop iteration that receives a command and applies it
WorkerRecv(t) ==
    /\ pc[t] = "loop"
    /\ cmdq[t] # << >>
    /\ LET m == try_recv(cmdq[t]) IN
       /\ cmdq' = [cmdq EXCEPT ![t] = m.rest]
       /\ applied' = [applied EXCEPT ![t] = Append(@, m.msg)]
       /\ \E ok \in (IF CallsDevice(m.msg) THEN BOOLEAN ELSE {TRUE}) :
             LET r == apply(ss[t], device[t], m.msg, ok)
             IN  /\ ss' = [ss EXCEPT ![t] = r.ss]
                 /\ device' = [device EXCEPT ![t] = r.device]
                 /\ last' = [last EXCEPT ![t] = Last("cmd", r.fail)]
                 /\ pc' = [pc EXCEPT ![t] =
                              CASE r.flow = "break" -> "done"
                                [] r.flow = "continue" -> "loop"
                                [] r.flow = "reconnect" -> "reconnect"
                                [] OTHER -> AfterCommand(r.ss)]
    /\ termTicks' = [termTicks EXCEPT ![t] = IF termK[t] > 0 THEN @ + 1 ELSE @]
    /\ UNCHANGED << worker, device_type, thread_handle, threads, next_thread_id, ctl,
                    ret, nsent, sentTo, termK, attempts, handles, model_monitors, relay, now, device_sync >>

\* one loop iteration that finds the channel empty
WorkerRecvEmpty(t) ==
    /\ pc[t] = "loop"
    /\ cmdq[t] = << >>
    /\ SenderAlive(t)
    /\ pc' = [pc EXCEPT ![t] = AfterCommand(ss[t])]
    /\ last' = [last EXCEPT ![t] = Last("empty", FALSE)]
    /\ termTicks' = [termTicks EXCEPT ![t] = IF termK[t] > 0 THEN @ + 1 ELSE @]
    /\ UNCHANGED << ss, worker, device_type, thread_handle, cmdq, device, threads,
                    next_thread_id, ctl, ret, nsent, sentTo, applied, termK, attempts, handles, model_monitors, relay, now, device_sync >>

\* one loop iteration that finds the channel empty and every sender dropped
WorkerRecvDisconnected(t) ==
    /\ pc[t] = "loop"
    /\ cmdq[t] = << >>
    /\ ~SenderAlive(t)
    /\ ss' = [ss EXCEPT ![t] = set_running(@, FALSE)]
    /\ pc' = [pc EXCEPT ![t] = "done"]
    /\ last' = [last EXCEPT ![t] = Last("disconnected", FALSE)]
    /\ termTicks' = [termTicks EXCEPT ![t] = IF termK[t] > 0 THEN @ + 1 ELSE @]
    /\ UNCHANGED << worker, device_type, thread_handle, cmdq, device, threads,
                    next_thread_id, ctl, ret, nsent, sentTo, applied, termK, attempts, handles, model_monitors, relay, now, device_sync >>

\* UpdateModel arm, `Ok(new_device) => { device = new_device; ..`: the handle
\* in `device` is dropped by the assignment, when new_device is already open
handles_during_reconnect == 2

reconnect_handle_without_model(index, model) == connect_to_device(index)

\* UpdateModel arm, Ok(new_device): the new handle gets the model of the shared state
reconnect_handle(index, model) == [connect_to_device(index) EXCEPT !.model = model]

reconnect_failed_silently(s) == s

\* UpdateModel arm, Err(e): the failure is recorded in the shared state
reconnect_failed(s) == record_error(s, MsgReconnect)

\* UpdateModel arm, the reconnect with the stored descriptor and the resume
WorkerReconnect(t) ==
    /\ pc[t] = "reconnect"
    /\ attempts' = [attempts EXCEPT ![t] = @ + 1]
    /\ \E ok \in BOOLEAN :
          LET s2 == IF ok THEN ss[t] ELSE reconnect_failed(ss[t])
              s3 == set_paused(s2, FALSE)
          IN  /\ device' = [device EXCEPT ![t] =
                               IF ok THEN reconnect_handle(device_type[t], ss[t].model)
                               ELSE @]
              /\ handles' = [handles EXCEPT ![t] =
                                IF ok THEN Max2(@, handles_during_reconnect) ELSE @]
              /\ ss' = [ss EXCEPT ![t] = s3]
              /\ pc' = [pc EXCEPT ![t] = AfterCommand(s3)]
              /\ last' = [last EXCEPT ![t] =
                             Last("reconnect", ~ok)]
    /\ UNCHANGED << worker, device_type, thread_handle, cmdq, threads, next_thread_id,
                    ctl, ret, nsent, sentTo, applied, termK, termTicks, model_monitors,
                    relay, now, device_sync >>

\* the sync step over a rendezvous notification channel: the step waits until the
\* observer has consumed every notification
WorkerSyncAwaitingObserver(t, outcomes, inputs) ==
    /\ pc[t] = "sync"
    /\ \A o \in DOMAIN ss[t].obs : ss[t].obs[o] = << >>
    /\ \E o \in outcomes, hw \in inputs :
          LET r == sync(ss[t], device[t], hw, o)
          IN  /\ ss' = [ss EXCEPT ![t] = r.ss]
              /\ device' = [device EXCEPT ![t] = r.device]
              /\ last' = [last EXCEPT ![t] = Last("sync", o # "ok")]
    /\ pc' = [pc EXCEPT ![t] = "loop"]
    /\ UNCHANGED << worker, device_type, thread_handle, cmdq, threads,
                    next_thread_id, ctl, ret, nsent, sentTo, applied, termK, termTicks,
                    attempts, handles, model_monitors, relay, now, device_sync >>

\* `if device_sync.should_sync() { device_sync.sync(&mut device) }`, interval elapsed
WorkerSync(t, outcomes, inputs) ==
    /\ pc[t] = "sync"
    /\ \E o \in outcomes, hw \in inputs :
          LET r == sync(ss[t], device[t], hw, o)
          IN  /\ ss' = [ss EXCEPT ![t] = r.ss]
              /\ device' = [device EXCEPT ![t] = r.device]
              /\ last' = [last EXCEPT ![t] = Last("sync", o # "ok")]
    /\ pc' = [pc EXCEPT ![t] = "loop"]
    /\ UNCHANGED << worker, device_type, thread_handle, cmdq, threads,
                    next_thread_id, ctl, ret, nsent, sentTo, applied, termK, termTicks,
                    attempts, handles, model_monitors, relay, now, device_sync >>

\* the same step when the interval has not elapsed
WorkerSkipSync(t) ==
    /\ pc[t] = "sync"
    /\ pc' = [pc EXCEPT ![t] = "loop"]
    /\ last' = [last EXCEPT ![t] = Last("skip", FALSE)]
    /\ UNCHANGED << ss, worker, device_type, thread_handle, cmdq, device, threads,
                    next_thread_id, ctl, ret, nsent, sentTo, applied, termK, termTicks,
                    attempts, handles, model_monitors, relay, now, device_sync >>

(***************************************************************************)
(* builder.rs and the DeviceWorker trait, as the owner of a worker uses    *)
(* them.                                                                   *)
(***************************************************************************)
\* the state changes of DeviceWorkerImpl::new followed by DeviceWorker::start
SpawnWorker(t, index) ==
    /\ worker' = [worker EXCEPT ![t] = "alive"]
    /\ device_type' = [device_type EXCEPT ![t] = index]
    /\ thread_handle' = [thread_handle EXCEPT ![t] = "some"]
    /\ ss' = [ss EXCEPT ![t] = update(NewSharedState)]
    /\ pc' = [pc EXCEPT ![t] = "connect"]
    /\ handles' = [handles EXCEPT ![t] = Max2(@, 1)]

\* the state changes of Sender::send on the worker's channel, receiver alive
Enqueue(t, c) ==
    LET m == [c EXCEPT !.seq = nsent + 1]
    IN  /\ cmdq' = [cmdq EXCEPT ![t] = Append(@, m)]
        /\ sentTo' = [sentTo EXCEPT ![t] = Append(@, m)]
        /\ nsent' = nsent + 1
        /\ termK' = [termK EXCEPT ![t] =
                        IF c.k = "Terminate" /\ Live(t) /\ @ = 0 THEN Len(cmdq[t]) + 1 ELSE @]

\* ThreadWorkerBuilder::build_usb_device
BuildUsbDevice(t, index) ==
    /\ ctl = Idle
    /\ worker[t] = "none"
    /\ \E ok \in BOOLEAN :
          IF ok
          THEN /\ SpawnWorker(t, index)
               /\ ret' = Ret("build", t, "Ok")
          ELSE /\ ret' = Ret("build", t, "DeviceError")
               /\ UNCHANGED << ss, worker, device_type, thread_handle, pc, handles >>
    /\ UNCHANGED << cmdq, device, threads, next_thread_id, ctl, nsent, sentTo, applied,
                    last, termK, termTicks, attempts, model_monitors, relay, now, device_sync >>

\* DeviceWorkerImpl::send_command
WorkerSendCommand(t, c) ==
    /\ ctl = Idle
    /\ worker[t] = "alive"
    /\ nsent < MaxSent
    /\ IF ReceiverAlive(t)
       THEN /\ Enqueue(t, c)
            /\ ret' = Ret("send_command", t, "Ok")
       ELSE /\ ret' = Ret("send_command", t, "CommandSendFailed")
            /\ UNCHANGED << cmdq, sentTo, nsent, termK >>
    /\ UNCHANGED << ss, worker, device_type, thread_handle, pc, device, threads,
                    next_thread_id, ctl, applied, last, termTicks, attempts, handles, model_monitors, relay, now, device_sync >>

\* DeviceWorkerImpl::stop up to the join
WorkerStop(t) ==
    /\ ctl = Idle
    /\ worker[t] = "alive"
    /\ IF ReceiverAlive(t)
       THEN /\ Enqueue(t, Terminate)
            /\ ctl' = IF thread_handle[t] = "some" THEN [op |-> "join", id |-> t] ELSE Idle
            /\ ret' = IF thread_handle[t] = "some" THEN ret ELSE Ret("stop", t, "Ok")
       ELSE /\ ret' = Ret("stop", t, "CommandSendFailed")
            /\ UNCHANGED << cmdq, sentTo, nsent, termK, ctl >>
    /\ UNCHANGED << ss, worker, device_type, thread_handle, pc, device, threads,
                    next_thread_id, applied, last, termTicks, attempts, handles, model_monitors, relay, now, device_sync >>

\* DeviceWorkerImpl::stop, `handle.join()` returning
WorkerJoin(t) ==
    /\ ctl = [op |-> "join", id |-> t]
    /\ pc[t] = "done"
    /\ thread_handle' = [thread_handle EXCEPT ![t] = "joined"]
    /\ ctl' = Idle
    /\ ret' = Ret("stop", t, "Ok")
    /\ UNCHANGED << ss, worker, device_type, cmdq, pc, device, threads, next_thread_id,
                    nsent, sentTo, applied, last, termK, termTicks, attempts, handles, model_monitors, relay, now, device_sync >>

\* the owner drops the worker without stopping it: the sender goes away
WorkerDrop(t) ==
    /\ ctl = Idle
    /\ worker[t] = "alive"
    /\ worker' = [worker EXCEPT ![t] = "dropped"]
    /\ ret' = Ret("drop", t, "Ok")
    /\ UNCHANGED << ss, device_type, thread_handle, cmdq, pc, device, threads,
                    next_thread_id, ctl, nsent, sentTo, applied, last, termK, termTicks,
                    attempts, handles, model_monitors, relay, now, device_sync >>

\* DeviceWorkerImpl::shared_state, and the owner's use of the Arc it returns:
\* shared_state.set_custom_value("example", ..) as in examples/state_observer.rs
WorkerSharedState(t) ==
    /\ ctl = Idle
    /\ worker[t] = "alive"
    /\ get_custom_value(ss[t], "example") = 0
    /\ ss' = [ss EXCEPT ![t] = set_custom_value(@, "example", 1)]
    /\ UNCHANGED workerVars

(***************************************************************************)
(* SpecWorker: one worker, built by the builder and driven by its owner.   *)
(***************************************************************************)
\* the id of the worker: the first id a controller hands out (next_thread_id: 1)
W == 1

NextWorker ==
    \/ \E index \in DeviceIndices : BuildUsbDevice(W, index)
    \/ \E c \in CallerCommands : WorkerSendCommand(W, c)
    \/ WorkerStop(W)
    \/ WorkerJoin(W)
    \/ WorkerDrop(W)
    \/ WorkerConnect(W)
    \/ WorkerInitialSync(W, SyncOutcomes, {Quiescent(device[W])})
    \/ WorkerRecv(W)
    \/ WorkerRecvEmpty(W)
    \/ WorkerRecvDisconnected(W)
    \/ WorkerReconnect(W)
    \/ WorkerSync(W, SyncOutcomes, {Quiescent(device[W])})
    \/ WorkerSkipSync(W)

SpecWorker == Init /\ [][NextWorker]_vars

(***************************************************************************)
(* SpecShared: one worker driven with the lifecycle commands, whose shared *)
(* state is also held by its owner through DeviceWorker::shared_state.     *)
(***************************************************************************)
NextShared ==
    \/ \E index \in DeviceIndices : BuildUsbDevice(W, index)
    \/ \E c \in LifecycleCommands : WorkerSendCommand(W, c)
    \/ WorkerSharedState(W)
    \/ WorkerConnect(W)
    \/ WorkerInitialSync(W, SyncOutcomes, {Quiescent(device[W])})
    \/ WorkerRecv(W)
    \/ WorkerRecvEmpty(W)
    \/ WorkerSync(W, SyncOutcomes, {Quiescent(device[W])})
    \/ WorkerSkipSync(W)

SpecShared == Init /\ [][NextShared]_vars

(***************************************************************************)
(* controller.rs: ThreadControllerImpl.  The controller is used through    *)
(* &mut self, so its operations do not overlap; stop_thread blocks in the  *)
(* join and is two steps.                                                  *)
(***************************************************************************)
\* a lookup that finds every id the controller has issued
get_thread_once_issued(id) == IF id < next_thread_id THEN "Ok" ELSE "ThreadNotFound"

\* ThreadControllerImpl::get_thread: Ok(worker) or Err(ThreadNotFound(id))
get_thread(id) == IF id \in threads THEN "Ok" ELSE "ThreadNotFound"

\* ThreadControllerImpl::list_active_threads
list_active_threads == threads

\* ThreadControllerImpl::get_status
get_status(id) == IF get_thread(id) = "Ok" THEN status(ss[id]) ELSE "ThreadNotFound"

\* what start_model_monitoring can come to once the worker is found: the
\* monitor runs, the device type has no model, or the monitor fails to start
MonitoringOutcomes == {"started", "unsupported", "start_failed"}

\* start_model_monitoring past its checks: a new intermediate channel with its
\* forwarding thread, and the monitor that sends on it stored for the worker;
\* a monitor stored before is replaced and dropped
MonitorStart(id, outcome) ==
    IF outcome = "started"
    THEN /\ model_monitors' = [model_monitors EXCEPT ![id] = Len(relay[id]) + 1]
         /\ relay' = [relay EXCEPT ![id] = Append(@, << >>)]
    ELSE UNCHANGED << model_monitors, relay >>

\* a start that hands out the lowest id not in the registry
start_usb_device_thread_reusing_ids(index, monitoring) ==
    LET free == {i \in ThreadIds : i \notin threads}
        id == CHOOSE i \in free : \A j \in free : i <= j
    IN  /\ ctl = Idle
        /\ free # {}
        /\ pc[id] \in {"none", "done"}
        /\ next_thread_id' = Max2(next_thread_id, id + 1)
        /\ SpawnWorker(id, index)
        /\ threads' = threads \cup {id}
        /\ ret' = Ret("start_thread", id, "Ok")
        /\ \E m \in monitoring : MonitorStart(id, m)
        /\ UNCHANGED << cmdq, device, ctl, nsent, sentTo, applied, last, termK, termTicks,
                        attempts, now, device_sync >>

\* ThreadControllerImpl::start_usb_device_thread: the id is taken before the
\* build, and model monitoring is started for the new worker, a failure of
\* which is logged and ignored
start_usb_device_thread(index, monitoring) ==
    /\ ctl = Idle
    /\ next_thread_id <= MaxThreads
    /\ next_thread_id' = next_thread_id + 1
    /\ \E ok \in BOOLEAN :
          IF ok
          THEN /\ SpawnWorker(next_thread_id, index)
               /\ threads' = threads \cup {next_thread_id}
               /\ ret' = Ret("start_thread", next_thread_id, "Ok")
               /\ \E m \in monitoring : MonitorStart(next_thread_id, m)
          ELSE /\ ret' = Ret("start_thread", next_thread_id, "DeviceError")
               /\ UNCHANGED << ss, worker, device_type, thread_handle, pc, threads,
                               handles, model_monitors, relay >>
    /\ UNCHANGED << cmdq, device, ctl, nsent, sentTo, applied, last, termK, termTicks,
                    attempts, now, device_sync >>

\* send_command that takes the send for delivered whether or not the worker's
\* thread still holds the receiver
send_command_ignoring_disconnect(id, c) ==
    /\ ctl = Idle
    /\ nsent < MaxSent
    /\ IF get_thread(id) # "Ok"
       THEN /\ ret' = Ret("send_command", id, "ThreadNotFound")
            /\ UNCHANGED << cmdq, sentTo, nsent, termK >>
       ELSE /\ Enqueue(id, c)
            /\ ret' = Ret("send_command", id, "Ok")
    /\ UNCHANGED << ss, worker, device_type, thread_handle, pc, device, threads,
                    next_thread_id, ctl, applied, last, termTicks, attempts, handles, model_monitors, relay, now, device_sync >>

\* ThreadControllerImpl::send_command
send_command(id, c) ==
    /\ ctl = Idle
    /\ nsent < MaxSent
    /\ IF get_thread(id) # "Ok"
       THEN /\ ret' = Ret("send_command", id, "ThreadNotFound")
            /\ UNCHANGED << cmdq, sentTo, nsent, termK >>
       ELSE IF ReceiverAlive(id)
       THEN /\ Enqueue(id, c)
            /\ ret' = Ret("send_command", id, "Ok")
       ELSE /\ ret' = Ret("send_command", id, "CommandSendFailed")
            /\ UNCHANGED << cmdq, sentTo, nsent, termK >>
    /\ UNCHANGED << ss, worker, device_type, thread_handle, pc, device, threads,
                    next_thread_id, ctl, applied, last, termTicks, attempts, handles, model_monitors, relay, now, device_sync >>

stop_thread_without_join(id) ==
    /\ ctl = Idle
    /\ IF id \notin threads
       THEN /\ ret' = Ret("stop_thread", id, "ThreadNotFound")
            /\ UNCHANGED << worker, cmdq, sentTo, nsent, termK, threads, ctl >>
       ELSE /\ threads' = threads \ {id}
            /\ worker' = [worker EXCEPT ![id] = "dropped"]
            /\ ctl' = Idle
            /\ IF ReceiverAlive(id)
               THEN /\ Enqueue(id, Terminate)
                    /\ ret' = Ret("stop_thread", id, "Ok")
               ELSE /\ ret' = Ret("stop_thread", id, "CommandSendFailed")
                    /\ UNCHANGED << cmdq, sentTo, nsent, termK >>
    /\ UNCHANGED << ss, device_type, thread_handle, pc, device, next_thread_id, applied,
                    last, termTicks, attempts, handles, model_monitors, relay, now, device_sync >>

\* ThreadControllerImpl::stop_thread up to the join inside DeviceWorkerImpl::stop
stop_thread(id) ==
    /\ ctl = Idle
    /\ IF id \notin threads
       THEN /\ ret' = Ret("stop_thread", id, "ThreadNotFound")
            /\ UNCHANGED << worker, cmdq, sentTo, nsent, termK, threads, ctl >>
       ELSE /\ threads' = threads \ {id}
            /\ IF ReceiverAlive(id)
               THEN /\ Enqueue(id, Terminate)
                    /\ ctl' = [op |-> "stop_thread", id |-> id]
                    /\ UNCHANGED << worker, ret >>
               ELSE /\ ret' = Ret("stop_thread", id, "CommandSendFailed")
                    /\ worker' = [worker EXCEPT ![id] = "dropped"]
                    /\ UNCHANGED << cmdq, sentTo, nsent, termK, ctl >>
    /\ UNCHANGED << ss, device_type, thread_handle, pc, device, next_thread_id, applied,
                    last, termTicks, attempts, handles, model_monitors, relay, now, device_sync >>

\* ThreadControllerImpl::stop_thread, the join returning and the worker dropped
stop_thread_join(id) ==
    /\ ctl = [op |-> "stop_thread", id |-> id]
    /\ pc[id] = "done"
    /\ thread_handle' = [thread_handle EXCEPT ![id] = "joined"]
    /\ worker' = [worker EXCEPT ![id] = "dropped"]
    /\ ctl' = Idle
    /\ ret' = Ret("stop_thread", id, "Ok")
    /\ UNCHANGED << ss, device_type, cmdq, pc, device, threads, next_thread_id, nsent,
                    sentTo, applied, last, termK, termTicks, attempts, handles, model_monitors, relay, now, device_sync >>

\* the registry after stop_all's loop, had it returned at the first failed send
threads_kept_on_error(failed) == IF failed = {} THEN {} ELSE threads

\* the registry after stop_all's loop: `self.threads.clear()`
threads_cleared(failed) == {}

\* ThreadControllerImpl::stop_all: Terminate to every registered worker, no join
stop_all ==
    /\ ctl = Idle
    /\ LET targets == {t \in threads : ReceiverAlive(t)}
           failed == threads \ targets
           rank(t) == Cardinality({u \in targets : u <= t})
           msg(t) == [Terminate EXCEPT !.seq = nsent + rank(t)]
       IN  /\ cmdq' = [t \in ThreadIds |->
                          IF t \in targets THEN Append(cmdq[t], msg(t)) ELSE cmdq[t]]
           /\ sentTo' = [t \in ThreadIds |->
                            IF t \in targets THEN Append(sentTo[t], msg(t)) ELSE sentTo[t]]
           /\ termK' = [t \in ThreadIds |->
                           IF t \in targets /\ Live(t) /\ termK[t] = 0
                           THEN Len(cmdq[t]) + 1 ELSE termK[t]]
           /\ nsent' = nsent + Cardinality(targets)
           /\ threads' = threads_cleared(failed)
           /\ worker' = [t \in ThreadIds |->
                            IF t \in threads /\ t \notin threads' THEN "dropped" ELSE worker[t]]
           /\ ret' = Ret("stop_all", 0, IF failed = {} THEN "Ok" ELSE "ThreadJoinError")
    /\ UNCHANGED << ss, device_type, thread_handle, pc, device, next_thread_id, ctl,
                    applied, last, termTicks, attempts, handles, model_monitors, relay, now, device_sync >>

\* In Spec the caller starts one thread per device, in discovery order, sends
\* Start, Pause and Terminate, and the transport fails only on the digital read.
ControllerCommands == {Cmd(k, 0, 0, FALSE) : k \in {"Start", "Pause", "Terminate"}}
ControllerSyncOutcomes == {"ok", "digital"}

Next ==
    \/ start_usb_device_thread(next_thread_id - 1, {"started"})
    \/ \E id \in ThreadIds, c \in ControllerCommands : send_command(id, c)
    \/ \E id \in ThreadIds : stop_thread(id)
    \/ \E id \in ThreadIds : stop_thread_join(id)
    \/ stop_all
    \/ \E t \in ThreadIds : WorkerConnect(t)
    \/ \E t \in ThreadIds : WorkerInitialSync(t, ControllerSyncOutcomes, {Quiescent(device[t])})
    \/ \E t \in ThreadIds : WorkerRecv(t)
    \/ \E t \in ThreadIds : WorkerRecvEmpty(t)
    \/ \E t \in ThreadIds : WorkerSync(t, ControllerSyncOutcomes, {Quiescent(device[t])})
    \/ \E t \in ThreadIds : WorkerSkipSync(t)

Spec == Init /\ [][Next]_vars

(***************************************************************************)
(* SpecState: one SharedDeviceState driven through its public API by       *)
(* arbitrary callers, with observers created by StateObserver::new.        *)
(***************************************************************************)
\* the current notification channel holds fewer than MaxNotes unread notifications
Room(s) == IF s.obs = << >> THEN TRUE ELSE Len(s.obs[Len(s.obs)]) < MaxNotes

\* a call of a method of SharedDeviceState by some thread; last records the method
\* the observer's channel, bounded here, holds the notifications of the call
Fits(s2) == IF s2.obs = << >> THEN TRUE ELSE Len(s2.obs[Len(s2.obs)]) <= MaxNotes + 1

StateCall(method, s2) ==
    /\ Fits(s2)
    /\ ss' = [ss EXCEPT ![W] = s2]
    /\ last' = [last EXCEPT ![W] = Last(method, FALSE)]
    /\ UNCHANGED << worker, device_type, thread_handle, cmdq, pc, device, threads,
                    next_thread_id, ctl, ret, nsent, sentTo, applied, termK, termTicks,
                    attempts, handles, model_monitors, relay, now, device_sync >>

StateSetRunning(b) == StateCall("set_running", set_running(ss[W], b))

StateSetPaused(b) == StateCall("set_paused", set_paused(ss[W], b))

StateSetError(msg) == StateCall("set_error", set_error(ss[W], msg))

StateSetDigitalOutput(pin, value) ==
    StateCall("set_digital_output", set_digital_output(ss[W], pin, value))

StateSetAnalogOutput(pin, value) ==
    StateCall("set_analog_output", set_analog_output(ss[W], pin, value))

StateSetPwmDutyCycle(channel, duty) ==
    StateCall("set_pwm_duty_cycle", set_pwm_duty_cycle(ss[W], channel, duty))

StateSetCustomValue(key, value) ==
    StateCall("set_custom_value", set_custom_value(ss[W], key, value))

\* SharedDeviceState::update called with a closure that changes nothing
StateUpdate == StateCall("update", update(ss[W]))

\* StateObserver::new
StateCreateObserver ==
    /\ Len(ss[W].obs) < MaxObservers
    /\ ss' = [ss EXCEPT ![W] = setup_notifications(@)]
    /\ last' = [last EXCEPT ![W] = Last("setup_notifications", FALSE)]
    /\ UNCHANGED << worker, device_type, thread_handle, cmdq, pc, device, threads,
                    next_thread_id, ctl, ret, nsent, sentTo, applied, termK, termTicks,
                    attempts, handles, model_monitors, relay, now, device_sync >>

\* StateObserver::check_for_change returning Some(change)
StateCheckForChange(o) ==
    /\ o \in DOMAIN ss[W].obs
    /\ ss[W].obs[o] # << >>
    /\ ss' = [ss EXCEPT ![W].obs[o] = Tail(@)]
    /\ last' = [last EXCEPT ![W] = Last("check_for_change", FALSE)]
    /\ UNCHANGED << worker, device_type, thread_handle, cmdq, pc, device, threads,
                    next_thread_id, ctl, ret, nsent, sentTo, applied, termK, termTicks,
                    attempts, handles, model_monitors, relay, now, device_sync >>

NextState ==
    \/ \E b \in BOOLEAN : StateSetRunning(b)
    \/ \E b \in BOOLEAN : StateSetPaused(b)
    \/ \E msg \in {NoError, MsgSyncDigital} : StateSetError(msg)
    \/ \E pin \in 0..(NumPins + 1), value \in BOOLEAN : StateSetDigitalOutput(pin, value)
    \/ \E pin \in 0..(NumPins + 1) : StateSetAnalogOutput(pin, 1)
    \/ \E channel \in {0, NumPwm} : StateSetPwmDutyCycle(channel, 1000)
    \/ StateSetCustomValue("example", 1)
    \/ StateUpdate
    \/ StateCreateObserver
    \/ \E o \in 1..MaxObservers : StateCheckForChange(o)

SpecState == Init /\ [][NextState]_vars

\* StateObserver::new for each of several observers of one Shared State
ObserverNew ==
    /\ Len(ss[W].obs) < MaxSubscribers
    /\ ss' = [ss EXCEPT ![W] = setup_notifications(@)]
    /\ last' = [last EXCEPT ![W] = Last("setup_notifications", FALSE)]
    /\ UNCHANGED << worker, device_type, thread_handle, cmdq, pc, device, threads,
                    next_thread_id, ctl, ret, nsent, sentTo, applied, termK, termTicks,
                    attempts, handles, model_monitors, relay, now, device_sync >>

\* a Shared State with several observers: subscriptions, status writes, an
\* error write, and the observers reading their channels
NextObservers ==
    \/ ObserverNew
    \/ \E b \in BOOLEAN : StateSetRunning(b)
    \/ \E b \in BOOLEAN : StateSetPaused(b)
    \/ \E msg \in {NoError, MsgSyncDigital} : StateSetError(msg)
    \/ \E o \in 1..MaxSubscribers : StateCheckForChange(o)

SpecObservers == Init /\ [][NextObservers]_vars

\* a call of a convenience setter of SharedDeviceState by some thread; ret
\* records the method and its arguments, and the observer's channel, bounded
\* here, holds the notifications of two calls
SetterCall(method, index, value, s2) ==
    /\ s2.obs # << >> => Len(s2.obs[Len(s2.obs)]) <= 2 * MaxNotes
    /\ ss' = [ss EXCEPT ![W] = s2]
    /\ last' = [last EXCEPT ![W] = Last(method, FALSE)]
    /\ ret' = Ret(method, index, value)
    /\ UNCHANGED << worker, device_type, thread_handle, cmdq, pc, device, threads,
                    next_thread_id, ctl, nsent, sentTo, applied, termK, termTicks,
                    attempts, handles, model_monitors, relay, now, device_sync >>

\* one observer, the PWM and the analog setter called with indices in and out
\* of range and with repeated and changing values, and the observer reading
NextSetters ==
    \/ StateCreateObserver
    \/ \E channel \in {0, NumPwm}, duty \in {1000, 2048} :
          SetterCall("set_pwm_duty_cycle", channel, duty,
                     set_pwm_duty_cycle(ss[W], channel, duty))
    \/ \E pin \in 0..(NumPins + 1) :
          SetterCall("set_analog_output", pin, 1, set_analog_output(ss[W], pin, 1))
    \/ \E o \in 1..MaxObservers : StateCheckForChange(o)

SpecSetters == Init /\ [][NextSetters]_vars

(***************************************************************************)
(* SpecSync: one worker on a device whose hardware inputs change, with     *)
(* observers created on its shared state by ThreadController::             *)
(* create_observer.  The worker thread runs while the current notification *)
(* channel has room.                                                       *)
(***************************************************************************)
\* StateObserver::new on the shared state of worker t
WorkerCreateObserver(t) ==
    /\ worker[t] = "alive"
    /\ Len(ss[t].obs) < MaxObservers
    /\ ss' = [ss EXCEPT ![t] = setup_notifications(@)]
    /\ UNCHANGED workerVars

\* StateObserver::check_for_change returning Some(change), observer o of worker t
WorkerCheckForChange(t, o) ==
    /\ o \in DOMAIN ss[t].obs
    /\ ss[t].obs[o] # << >>
    /\ ss' = [ss EXCEPT ![t].obs[o] = Tail(@)]
    /\ UNCHANGED workerVars

\* the commands sent in SpecSync: a servo command (the handle caches the duty,
\* the shared state learns it at the next sync) and a digital output
SyncCommands ==
    {Cmd("SetServoAngle", 22, 90, FALSE), Cmd("SetDigitalOutput", 1, 0, TRUE)}

NextSync ==
    \/ \E index \in DeviceIndices : BuildUsbDevice(W, index)
    \/ \E c \in SyncCommands : WorkerSendCommand(W, c)
    \/ WorkerCreateObserver(W)
    \/ \E o \in 1..MaxObservers : WorkerCheckForChange(W, o)
    \/ Room(ss[W]) /\ WorkerConnect(W)
    \/ Room(ss[W]) /\ WorkerInitialSync(W, SyncOutcomes, HardwareInputs)
    \/ Room(ss[W]) /\ WorkerRecv(W)
    \/ Room(ss[W]) /\ WorkerRecvEmpty(W)
    \/ Room(ss[W]) /\ WorkerSync(W, SyncOutcomes, HardwareInputs)
    \/ Room(ss[W]) /\ WorkerSkipSync(W)

SpecSync == Init /\ [][NextSync]_vars

\* a controller call that reads and returns res
ControllerQuery(op, id, res) ==
    /\ ctl = Idle
    /\ ret' = Ret(op, id, res)
    /\ UNCHANGED << ss, worker, device_type, thread_handle, cmdq, pc, device, threads,
                    next_thread_id, ctl, nsent, sentTo, applied, last, termK, termTicks,
                    attempts, handles, model_monitors, relay, now, device_sync >>

\* ThreadControllerImpl::get_status returning to the caller
get_status_returns(id) == ControllerQuery("get_status", id, get_status(id))

\* ThreadControllerImpl::get_state: Ok(a clone of the state) or the lookup's error
get_state(id) == ControllerQuery("get_state", id, get_thread(id))

\* ThreadControllerImpl::get_shared_state: Ok(the Arc) or the lookup's error
get_shared_state(id) == ControllerQuery("get_shared_state", id, get_thread(id))

\* ThreadControllerImpl::create_observer: the lookup, then StateObserver::new
create_observer(id) ==
    /\ ctl = Idle
    /\ ret' = Ret("create_observer", id, get_thread(id))
    /\ IF get_thread(id) = "Ok"
       THEN /\ Len(ss[id].obs) < MaxObservers
            /\ ss' = [ss EXCEPT ![id] = setup_notifications(@)]
       ELSE ss' = ss
    /\ UNCHANGED << worker, device_type, thread_handle, cmdq, pc, device, threads,
                    next_thread_id, ctl, nsent, sentTo, applied, last, termK, termTicks,
                    attempts, handles, model_monitors, relay, now, device_sync >>

\* the commands sent in SpecLookup
LookupCommands == {Cmd("Pause", 0, 0, FALSE)}

\* the controller's calls that look a worker up by id, with the workers running
NextLookup ==
    \/ start_usb_device_thread(next_thread_id - 1, {"started"})
    \/ \E id \in ThreadIds, c \in LookupCommands : send_command(id, c)
    \/ \E id \in ThreadIds : get_status_returns(id)
    \/ \E id \in ThreadIds : get_state(id)
    \/ \E id \in ThreadIds : get_shared_state(id)
    \/ \E id \in ThreadIds : create_observer(id)
    \/ \E id \in ThreadIds : stop_thread(id)
    \/ \E id \in ThreadIds : stop_thread_join(id)
    \/ \E t \in ThreadIds, o \in 1..MaxObservers : WorkerCheckForChange(t, o)
    \/ \E t \in ThreadIds : Room(ss[t]) /\ WorkerConnect(t)
    \/ \E t \in ThreadIds :
          Room(ss[t]) /\ WorkerInitialSync(t, {"ok"}, {Quiescent(device[t])})
    \/ \E t \in ThreadIds : Room(ss[t]) /\ WorkerRecv(t)
    \/ \E t \in ThreadIds : WorkerRecvEmpty(t)
    \/ \E t \in ThreadIds : Room(ss[t]) /\ WorkerSync(t, {"ok"}, {Quiescent(device[t])})
    \/ \E t \in ThreadIds : WorkerSkipSync(t)

SpecLookup == Init /\ [][NextLookup]_vars

\* the controller's logger: absent, an Arc nobody else holds, or an Arc also
\* held by the caller or by the ThreadLogger of a worker
LoggerStates == {"none", "unique", "shared"}

\* ThreadControllerImpl::set_global_log_level: Arc::get_mut on the controller's
\* logger, then SetLogLevel to every registered worker, the errors collected
set_global_log_level(logger) ==
    /\ ctl = Idle
    /\ LET targets == {t \in threads : ReceiverAlive(t)}
           failed == threads \ targets
           rank(t) == Cardinality({u \in targets : u <= t})
           msg(t) == [Cmd("SetLogLevel", 0, 0, FALSE) EXCEPT !.seq = nsent + rank(t)]
       IN  IF logger = "shared"
           THEN /\ ret' = Ret("set_global_log_level", 0, "LockPoisoned")
                /\ UNCHANGED << cmdq, sentTo, nsent >>
           ELSE /\ nsent + Cardinality(targets) <= MaxSent
                /\ cmdq' = [t \in ThreadIds |->
                               IF t \in targets THEN Append(cmdq[t], msg(t)) ELSE cmdq[t]]
                /\ sentTo' = [t \in ThreadIds |->
                                 IF t \in targets THEN Append(sentTo[t], msg(t))
                                 ELSE sentTo[t]]
                /\ nsent' = nsent + Cardinality(targets)
                /\ ret' = Ret("set_global_log_level", 0,
                              IF failed = {} THEN "Ok" ELSE "OperationFailed")
    /\ UNCHANGED << ss, worker, device_type, thread_handle, pc, device, threads,
                    next_thread_id, ctl, applied, last, termK, termTicks, attempts,
                    handles, model_monitors, relay, now, device_sync >>

\* the controller's aggregate calls, with workers that run and workers whose
\* thread has exited after a Terminate command
NextAggregate ==
    \/ start_usb_device_thread(next_thread_id - 1, {"started"})
    \/ \E id \in ThreadIds : send_command(id, Terminate)
    \/ \E logger \in LoggerStates : set_global_log_level(logger)
    \/ stop_all
    \/ \E t \in ThreadIds : WorkerConnect(t)
    \/ \E t \in ThreadIds : WorkerInitialSync(t, {"ok"}, {Quiescent(device[t])})
    \/ \E t \in ThreadIds : WorkerRecv(t)
    \/ \E t \in ThreadIds : WorkerRecvEmpty(t)
    \/ \E t \in ThreadIds : WorkerSync(t, {"ok"}, {Quiescent(device[t])})
    \/ \E t \in ThreadIds : WorkerSkipSync(t)

SpecAggregate == Init /\ [][NextAggregate]_vars

\* ThreadControllerImpl::start_model_monitoring
start_model_monitoring(id, outcome) ==
    /\ ctl = Idle
    /\ IF get_thread(id) # "Ok"
       THEN /\ ret' = Ret("start_model_monitoring", id, "ThreadNotFound")
            /\ UNCHANGED << model_monitors, relay >>
       ELSE /\ outcome = "started" => Len(relay[id]) < MaxMonitorStarts
            /\ MonitorStart(id, outcome)
            /\ ret' = Ret("start_model_monitoring", id,
                          CASE outcome = "started" -> "Ok"
                            [] outcome = "unsupported" -> "UnsupportedDevice"
                            [] OTHER -> "Other")
    /\ UNCHANGED << ss, worker, device_type, thread_handle, cmdq, pc, device, threads,
                    next_thread_id, ctl, nsent, sentTo, applied, last, termK, termTicks,
                    attempts, handles, now, device_sync >>

\* stop_model_monitoring that answers Ok and leaves the monitor running
stop_model_monitoring_keeping_monitor(id, ok) ==
    /\ ctl = Idle
    /\ ret' = Ret("stop_model_monitoring", id, get_thread(id))
    /\ UNCHANGED << ss, worker, device_type, thread_handle, cmdq, pc, device, threads,
                    next_thread_id, ctl, nsent, sentTo, applied, last, termK, termTicks,
                    attempts, handles, model_monitors, relay, now, device_sync >>

\* ThreadControllerImpl::stop_model_monitoring: the monitor is taken out of the
\* map, stopped and dropped; ok is the result of ModelMonitor::stop
stop_model_monitoring(id, ok) ==
    /\ ctl = Idle
    /\ IF id \notin threads
       THEN /\ ret' = Ret("stop_model_monitoring", id, "ThreadNotFound")
            /\ UNCHANGED model_monitors
       ELSE IF model_monitors[id] = 0
       THEN /\ ret' = Ret("stop_model_monitoring", id, "Ok")
            /\ UNCHANGED model_monitors
       ELSE /\ model_monitors' = [model_monitors EXCEPT ![id] = 0]
            /\ ret' = Ret("stop_model_monitoring", id, IF ok THEN "Ok" ELSE "Other")
    /\ UNCHANGED << ss, worker, device_type, thread_handle, cmdq, pc, device, threads,
                    next_thread_id, ctl, nsent, sentTo, applied, last, termK, termTicks,
                    attempts, handles, relay, now, device_sync >>

\* the models waiting in the intermediate channels of worker t
Relayed(t) ==
    LET RECURSIVE total(_)
        total(g) == IF g = 0 THEN 0 ELSE Len(relay[t][g]) + total(g - 1)
    IN  total(Len(relay[t]))

\* the models waiting in all intermediate channels
RelayedAll ==
    LET RECURSIVE sum(_)
        sum(S) == IF S = {} THEN 0
                  ELSE LET t == CHOOSE x \in S : TRUE IN Relayed(t) + sum(S \ {t})
    IN  sum(ThreadIds)

\* the callback of the watcher of worker t, on the watcher's thread: the model
\* file changed, and UpdateModel(model) is sent on the intermediate channel
ModelChanged(t, model) ==
    /\ model_monitors[t] > 0
    /\ nsent + RelayedAll < MaxSent
    /\ relay' = [relay EXCEPT ![t][model_monitors[t]] = Append(@, model)]
    /\ UNCHANGED << ss, worker, device_type, thread_handle, cmdq, pc, device, threads,
                    next_thread_id, ctl, ret, nsent, sentTo, applied, last, termK,
                    termTicks, attempts, handles, model_monitors, now, device_sync >>

\* a forwarding thread that takes the newest model of its channel
ForwardNewestModel(t, g) ==
    /\ g \in DOMAIN relay[t]
    /\ relay[t][g] # << >>
    /\ relay' = [relay EXCEPT ![t][g] = SubSeq(@, 1, Len(@) - 1)]
    /\ IF ReceiverAlive(t)
       THEN Enqueue(t, Cmd("UpdateModel", relay[t][g][Len(relay[t][g])], 0, FALSE))
       ELSE UNCHANGED << cmdq, sentTo, nsent, termK >>
    /\ UNCHANGED << ss, worker, device_type, thread_handle, pc, device, threads,
                    next_thread_id, ctl, ret, applied, last, termTicks, attempts, handles,
                    model_monitors, now, device_sync >>

\* the forwarding thread of channel g of worker t: `rx.recv()`, then
\* `let _ = thread_sender.send(command)`
ForwardModel(t, g) ==
    /\ g \in DOMAIN relay[t]
    /\ relay[t][g] # << >>
    /\ relay' = [relay EXCEPT ![t][g] = Tail(@)]
    /\ IF ReceiverAlive(t)
       THEN Enqueue(t, Cmd("UpdateModel", Head(relay[t][g]), 0, FALSE))
       ELSE UNCHANGED << cmdq, sentTo, nsent, termK >>
    /\ UNCHANGED << ss, worker, device_type, thread_handle, pc, device, threads,
                    next_thread_id, ctl, ret, applied, last, termTicks, attempts, handles,
                    model_monitors, now, device_sync >>

\* the controller with model monitoring: workers started, monitoring stopped
\* and started again, the watcher's callbacks and the forwarding threads
NextMonitor ==
    \/ start_usb_device_thread(next_thread_id - 1, MonitoringOutcomes)
    \/ \E id \in ThreadIds, outcome \in MonitoringOutcomes :
          start_model_monitoring(id, outcome)
    \/ \E id \in ThreadIds, ok \in BOOLEAN : stop_model_monitoring(id, ok)
    \/ \E t \in ThreadIds, model \in Models : ModelChanged(t, model)
    \/ \E t \in ThreadIds, g \in 1..MaxMonitorStarts : ForwardModel(t, g)
    \/ \E t \in ThreadIds : WorkerConnect(t)
    \/ \E t \in ThreadIds : WorkerInitialSync(t, {"ok"}, {Quiescent(device[t])})
    \/ \E t \in ThreadIds : WorkerRecv(t)
    \/ \E t \in ThreadIds : WorkerRecvEmpty(t)
    \/ \E t \in ThreadIds : WorkerReconnect(t)
    \/ \E t \in ThreadIds : WorkerSync(t, {"ok"}, {Quiescent(device[t])})
    \/ \E t \in ThreadIds : WorkerSkipSync(t)

SpecMonitor == Init /\ [][NextMonitor]_vars

(***************************************************************************)
(* SpecOperations: the DeviceOperations of the controller on workers that  *)
(* have a capability model attached by update_device_model.                *)
(***************************************************************************)
\* the capabilities the model gives each pin: model 1 has input-only pins,
\* model 2 output-only pins
Capabilities(model) ==
    CASE model = 1 -> {"DigitalInput"}
      [] model = 2 -> {"DigitalOutput"}
      [] OTHER -> {"DigitalInput", "DigitalOutput"}

\* the result of a DeviceOperations call on a pin, as the caller receives it
PinRet(op, id, pin, res) == [op |-> op, id |-> id, pin |-> pin, res |-> res]

\* ThreadControllerImpl::update_device_model
update_device_model(id, model) == send_command(id, Cmd("UpdateModel", model, 0, FALSE))

\* DeviceOperations::set_digital_output of the controller: the command is sent
\* and the result of send_command returned
DeviceOperations_set_digital_output(id, pin, value) ==
    /\ ctl = Idle
    /\ nsent < MaxSent
    /\ IF get_thread(id) # "Ok"
       THEN /\ ret' = PinRet("set_digital_output", id, pin, "ThreadNotFound")
            /\ UNCHANGED << cmdq, sentTo, nsent, termK >>
       ELSE IF ReceiverAlive(id)
       THEN /\ Enqueue(id, Cmd("SetDigitalOutput", pin, 0, value))
            /\ ret' = PinRet("set_digital_output", id, pin, "Ok")
       ELSE /\ ret' = PinRet("set_digital_output", id, pin, "CommandSendFailed")
            /\ UNCHANGED << cmdq, sentTo, nsent, termK >>
    /\ UNCHANGED << ss, worker, device_type, thread_handle, pc, device, threads,
                    next_thread_id, ctl, applied, last, termTicks, attempts, handles,
                    model_monitors, relay, now, device_sync >>

\* DeviceOperations::get_digital_input of the controller: get_shared_state,
\* then the pin of the Shared State, absent mapped to InvalidParameter
DeviceOperations_get_digital_input(id, pin) ==
    /\ ctl = Idle
    /\ ret' = PinRet("get_digital_input", id, pin,
                     IF get_thread(id) # "Ok" THEN "ThreadNotFound"
                     ELSE IF get_digital_input(ss[id], pin).some THEN "Ok"
                     ELSE "InvalidParameter")
    /\ UNCHANGED << ss, worker, device_type, thread_handle, cmdq, pc, device, threads,
                    next_thread_id, ctl, nsent, sentTo, applied, last, termK, termTicks,
                    attempts, handles, model_monitors, relay, now, device_sync >>

NextOperations ==
    \/ start_usb_device_thread(next_thread_id - 1, {"started"})
    \/ \E id \in ThreadIds, model \in Models : update_device_model(id, model)
    \/ \E id \in ThreadIds, pin \in 0..(NumPins + 1), value \in BOOLEAN :
          DeviceOperations_set_digital_output(id, pin, value)
    \/ \E id \in ThreadIds, pin \in 0..(NumPins + 1) :
          DeviceOperations_get_digital_input(id, pin)
    \/ \E t \in ThreadIds : WorkerConnect(t)
    \/ \E t \in ThreadIds : WorkerInitialSync(t, {"ok"}, {Quiescent(device[t])})
    \/ \E t \in ThreadIds : WorkerRecv(t)
    \/ \E t \in ThreadIds : WorkerRecvEmpty(t)
    \/ \E t \in ThreadIds : WorkerReconnect(t)
    \/ \E t \in ThreadIds : WorkerSync(t, {"ok"}, {Quiescent(device[t])})
    \/ \E t \in ThreadIds : WorkerSkipSync(t)

SpecOperations == Init /\ [][NextOperations]_vars

(***************************************************************************)
(* SpecDeviceSync: sync.rs, DeviceSync with its clock.  One worker whose   *)
(* loop decides with should_sync whether to sync; time passes in ticks.    *)
(***************************************************************************)
MaxTime == 3

\* the refresh intervals given to the worker, in ticks
SyncIntervals == {1, 2}

\* DeviceSync::should_sync: `self.last_sync.elapsed() >= self.sync_interval`
should_sync(ds) == now - ds.last_sync >= ds.sync_interval

\* DeviceSync::new: `last_sync: Instant::now()`
DeviceSync_new(sync_interval_ms) == [last_sync |-> now, sync_interval |-> sync_interval_ms]

\* set_sync_interval that also restarts the elapsed time
set_sync_interval_restarting(ds, sync_interval_ms) ==
    [ds EXCEPT !.sync_interval = sync_interval_ms, !.last_sync = now]

\* DeviceSync::set_sync_interval
set_sync_interval(ds, sync_interval_ms) == [ds EXCEPT !.sync_interval = sync_interval_ms]

\* the end of a sync that sets last_sync whatever the result
sync_last_sync_always(ds, ok) == [ds EXCEPT !.last_sync = now]

\* DeviceSync::sync, `self.last_sync = Instant::now(); Ok(())`: reached only
\* when the digital and the analog read succeeded
sync_last_sync(ds, ok) == IF ok THEN [ds EXCEPT !.last_sync = now] ELSE ds

\* time passes
Tick ==
    /\ now < MaxTime
    /\ now' = now + 1
    /\ UNCHANGED << ss, worker, device_type, thread_handle, cmdq, pc, device, threads,
                    next_thread_id, ctl, ret, nsent, sentTo, applied, last, termK, termTicks,
                    attempts, handles, model_monitors, relay, device_sync >>

\* run_thread after the connection: DeviceSync::new with the refresh interval
\* of the worker, then the initial sync
RunThreadInitialSync(t, intervals, outcomes, inputs) ==
    /\ pc[t] = "init_sync"
    /\ \E interval \in intervals, o \in outcomes, hw \in inputs :
          LET r == sync(ss[t], device[t], hw, o)
          IN  /\ ss' = [ss EXCEPT ![t] = IF r.ok THEN r.ss
                                         ELSE record_error(r.ss, MsgInitialSync)]
              /\ device' = [device EXCEPT ![t] = r.device]
              /\ last' = [last EXCEPT ![t] = Last("sync", o # "ok")]
              /\ device_sync' = [device_sync EXCEPT ![t] =
                                     sync_last_sync(DeviceSync_new(interval), r.ok)]
    /\ pc' = [pc EXCEPT ![t] = "loop"]
    /\ UNCHANGED << worker, device_type, thread_handle, cmdq, threads,
                    next_thread_id, ctl, ret, nsent, sentTo, applied, termK, termTicks,
                    attempts, handles, model_monitors, relay, now >>

\* run_thread, `if device_sync.should_sync() { device_sync.sync(&mut device) }`
RunThreadSync(t, outcomes, inputs) ==
    /\ pc[t] = "sync"
    /\ IF should_sync(device_sync[t])
       THEN \E o \in outcomes, hw \in inputs :
               LET r == sync(ss[t], device[t], hw, o)
               IN  /\ ss' = [ss EXCEPT ![t] = r.ss]
                   /\ device' = [device EXCEPT ![t] = r.device]
                   /\ last' = [last EXCEPT ![t] = Last("sync", o # "ok")]
                   /\ device_sync' = [device_sync EXCEPT ![t] = sync_last_sync(@, r.ok)]
       ELSE /\ last' = [last EXCEPT ![t] = Last("skip", FALSE)]
            /\ UNCHANGED << ss, device, device_sync >>
    /\ pc' = [pc EXCEPT ![t] = "loop"]
    /\ UNCHANGED << worker, device_type, thread_handle, cmdq, threads,
                    next_thread_id, ctl, ret, nsent, sentTo, applied, termK, termTicks,
                    attempts, handles, model_monitors, relay, now >>

\* DeviceSync::set_sync_interval called on the DeviceSync of worker t
DeviceSyncSetInterval(t, sync_interval_ms) ==
    /\ pc[t] \in {"loop", "sync"}
    /\ device_sync[t].sync_interval # sync_interval_ms
    /\ device_sync' = [device_sync EXCEPT ![t] = set_sync_interval(@, sync_interval_ms)]
    /\ UNCHANGED << ss, worker, device_type, thread_handle, cmdq, pc, device, threads,
                    next_thread_id, ctl, ret, nsent, sentTo, applied, last, termK, termTicks,
                    attempts, handles, model_monitors, relay, now >>

NextDeviceSync ==
    \/ \E index \in DeviceIndices : BuildUsbDevice(W, index)
    \/ \E k \in {"Pause", "Start"} : WorkerSendCommand(W, Cmd(k, 0, 0, FALSE))
    \/ Tick
    \/ \E ms \in SyncIntervals : DeviceSyncSetInterval(W, ms)
    \/ WorkerConnect(W)
    \/ RunThreadInitialSync(W, SyncIntervals, SyncOutcomes, {Quiescent(device[W])})
    \/ WorkerRecv(W)
    \/ WorkerRecvEmpty(W)
    \/ RunThreadSync(W, SyncOutcomes, {Quiescent(device[W])})

SpecDeviceSync == Init /\ [][NextDeviceSync]_vars

(***************************************************************************)
(* SpecRegistry: the controller's two maps, threads and model_monitors,    *)
(* under the operations that insert into them and remove from them.        *)
(***************************************************************************)
NextRegistry ==
    \/ start_usb_device_thread(next_thread_id - 1, {"started", "unsupported"})
    \/ \E id \in ThreadIds : start_model_monitoring(id, "started")
    \/ \E id \in ThreadIds, ok \in BOOLEAN : stop_model_monitoring(id, ok)
    \/ \E id \in ThreadIds : stop_thread(id)
    \/ \E id \in ThreadIds : stop_thread_join(id)
    \/ stop_all
    \/ \E t \in ThreadIds : WorkerConnect(t)
    \/ \E t \in ThreadIds : WorkerInitialSync(t, {"ok"}, {Quiescent(device[t])})
    \/ \E t \in ThreadIds : WorkerRecv(t)
    \/ \E t \in ThreadIds : WorkerRecvEmpty(t)
    \/ \E t \in ThreadIds : WorkerSync(t, {"ok"}, {Quiescent(device[t])})
    \/ \E t \in ThreadIds : WorkerSkipSync(t)

SpecRegistry == Init /\ [][NextRegistry]_vars

(***************************************************************************)
(* SpecStopAll: the end of the workers after stop_all and after the drop   *)
(* of the controller.  The thread of a worker keeps running: every device  *)
(* call returns, so a step of run_thread that can be taken is taken.       *)
(***************************************************************************)
\* Drop for ThreadControllerImpl: stop_all, its error logged, and the
\* controller is gone
drop ==
    /\ ctl = Idle
    /\ LET targets == {t \in threads : ReceiverAlive(t)}
           failed == threads \ targets
           rank(t) == Cardinality({u \in targets : u <= t})
           msg(t) == [Terminate EXCEPT !.seq = nsent + rank(t)]
       IN  /\ cmdq' = [t \in ThreadIds |->
                          IF t \in targets THEN Append(cmdq[t], msg(t)) ELSE cmdq[t]]
           /\ sentTo' = [t \in ThreadIds |->
                            IF t \in targets THEN Append(sentTo[t], msg(t)) ELSE sentTo[t]]
           /\ termK' = [t \in ThreadIds |->
                           IF t \in targets /\ Live(t) /\ termK[t] = 0
                           THEN Len(cmdq[t]) + 1 ELSE termK[t]]
           /\ nsent' = nsent + Cardinality(targets)
           /\ threads' = threads_cleared(failed)
           /\ worker' = [t \in ThreadIds |->
                            IF t \in threads /\ t \notin threads' THEN "dropped" ELSE worker[t]]
           /\ ret' = Ret("drop", 0, "Ok")
           /\ ctl' = [op |-> "dropped", id |-> 0]
    /\ UNCHANGED << ss, device_type, thread_handle, pc, device, next_thread_id,
                    applied, last, termTicks, attempts, handles, model_monitors, relay, now, device_sync >>

\* the steps of run_thread of worker t
WorkerSteps(t) ==
    \/ WorkerConnect(t)
    \/ WorkerInitialSync(t, ControllerSyncOutcomes, {Quiescent(device[t])})
    \/ WorkerRecv(t)
    \/ WorkerRecvEmpty(t)
    \/ WorkerSync(t, ControllerSyncOutcomes, {Quiescent(device[t])})
    \/ WorkerSkipSync(t)

NextStopAll ==
    \/ start_usb_device_thread(next_thread_id - 1, {"unsupported"})
    \/ \E id \in ThreadIds, k \in {"Pause", "Start"} : send_command(id, Cmd(k, 0, 0, FALSE))
    \/ stop_all
    \/ drop
    \/ \E t \in ThreadIds : WorkerSteps(t)

SpecStopAll ==
    Init /\ [][NextStopAll]_vars /\ \A t \in ThreadIds : WF_vars(WorkerSteps(t))

(***************************************************************************)
(* Properties.                                                             *)
(***************************************************************************)
\* a step of the worker thread of t: it applies a command or moves in run_thread
WorkerStep(t) == applied'[t] # applied[t] \/ (pc[t] # "none" /\ pc'[t] # pc[t])
\* a step in which the worker thread of t receives a command; the command it applies
RecvStep(t) == applied'[t] # applied[t]
AppliedNow(t) == applied'[t][Len(applied'[t])]
LastApplied(t) == applied[t][Len(applied[t])]
\* a step in which the worker thread of t runs DeviceSync::sync
SyncStep(t) == pc[t] \in {"init_sync", "sync"} /\ pc'[t] = "loop" /\ last'[t].step = "sync"
\* a step in which the worker thread of t finishes the reconnect of UpdateModel
ReconnectStep(t) == pc[t] = "reconnect" /\ pc'[t] # "reconnect"

\* C1: the commands a worker has applied, followed by those still in its
\* channel, are exactly the commands enqueued on it, in the order they were
\* enqueued; and no step of the worker takes more than one command.
C1_CommandsAppliedInFifoOrder ==
    /\ [](\A t \in ThreadIds : applied[t] \o cmdq[t] = sentTo[t])
    /\ [][\A t \in ThreadIds : Len(applied'[t]) <= Len(applied[t]) + 1]_vars

\* C1 witness: two commands enqueued one after the other were both applied
C1_Witness ==
    /\ Len(applied[W]) = 2
    /\ applied[W][1].seq < applied[W][2].seq
    /\ applied[W][1].k = "Pause" /\ applied[W][2].k = "SetDigitalOutput"

\* C2: when Terminate was enqueued on a live worker behind k commands, the
\* worker starts at most k+1 further loop iterations, and after the k+1st its
\* status is Stopped and its thread has left run_thread (so a join returns).
C2_TerminateWithinKPlusOneTicks ==
    \A t \in ThreadIds :
        termK[t] > 0 =>
            /\ termTicks[t] <= termK[t]
            /\ termTicks[t] = termK[t] => pc[t] = "done" /\ status(ss[t]) = "Stopped"

\* C2 witness: Terminate was reached behind another command by a paused worker
C2_Witness ==
    /\ termK[W] = 2 /\ termTicks[W] = 2
    /\ ss[W].paused
    /\ pc[W] = "done"

\* C3: status() is Stopped whenever running is false, Paused when running and
\* paused are set, Running when only running is set, and never Error, whatever
\* the error message is.
C3_StatusIsFunctionOfFlags ==
    LET s == ss[W]
    IN  /\ ~s.running => status(s) = "Stopped"
        /\ s.running /\ s.paused => status(s) = "Paused"
        /\ s.running /\ ~s.paused => status(s) = "Running"
        /\ status(s) # "Error"

\* C3 witness: paused is set, running is not, and an error message is set
C3_Witness ==
    /\ ~ss[W].running /\ ss[W].paused
    /\ ss[W].error_message # NoError
    /\ status(ss[W]) = "Stopped"

\* C4: when stop_thread(id) has returned Ok, Terminate was the last command
\* sent to the worker, its status is Stopped, its thread has been joined, and
\* id is neither listed by list_active_threads nor accepted by get_status.
C4_StopThreadOk ==
    (ret.op = "stop_thread" /\ ret.res = "Ok") =>
        /\ sentTo[ret.id] # << >>
        /\ sentTo[ret.id][Len(sentTo[ret.id])].k = "Terminate"
        /\ status(ss[ret.id]) = "Stopped"
        /\ pc[ret.id] = "done"
        /\ thread_handle[ret.id] = "joined"
        /\ ret.id \notin list_active_threads
        /\ get_status(ret.id) = "ThreadNotFound"

\* C4 witness: stop_thread returned Ok for one worker while another stays registered
C4_Witness ==
    /\ ret = Ret("stop_thread", 1, "Ok")
    /\ threads = {2}
    /\ status(ss[2]) = "Running"

\* C5: when stop_all has returned, with Ok or with an error, the registry is empty.
C5_StopAllClearsRegistry ==
    ret.op = "stop_all" => list_active_threads = {}

\* C5 witness: stop_all returned an error with two workers registered, one of
\* which had already left its thread
C5_Witness ==
    /\ ret = Ret("stop_all", 0, "ThreadJoinError")
    /\ worker[1] = "dropped" /\ worker[2] = "dropped"
    /\ Len(sentTo[2]) > 0 /\ sentTo[2][Len(sentTo[2])].k = "Terminate"
    /\ threads = {}

\* C6: the worker never syncs while its status is Paused, and a step it takes
\* while Paused with a command in the channel applies that command: Start and
\* Restart make it Running, Terminate makes it Stopped and ends the thread.
C6_PausedSkipsSyncButDrains ==
    /\ [](\A t \in ThreadIds : pc[t] = "sync" => status(ss[t]) # "Paused")
    /\ [][\A t \in ThreadIds :
            /\ SyncStep(t) => status(ss[t]) # "Paused" /\ status(ss'[t]) # "Paused"
            /\ (status(ss[t]) = "Paused" /\ pc[t] = "loop" /\ cmdq[t] # << >> /\ WorkerStep(t)) =>
                  /\ applied'[t] = Append(applied[t], Head(cmdq[t]))
                  /\ Head(cmdq[t]).k \in {"Start", "Restart"} => status(ss'[t]) = "Running"
                  /\ Head(cmdq[t]).k = "Terminate" =>
                        status(ss'[t]) = "Stopped" /\ pc'[t] = "done"]_vars

\* C6 witness: a Restart sent to a paused worker was applied and it is Running again
C6_Witness ==
    /\ Len(applied[W]) = 2
    /\ applied[W][1].k = "Pause" /\ applied[W][2].k = "Restart"
    /\ status(ss[W]) = "Running"
    /\ pc[W] = "sync"

\* C7: a step of the worker in which a device call of a command or of a sync
\* fails leaves the thread in its loop, leaves status() as it was, and leaves
\* an error message in the shared state.
C7_TransportFailureRecordedAndSurvived ==
    [][\A t \in ThreadIds :
          (WorkerStep(t) /\ last'[t].fail /\ last'[t].step \in {"cmd", "sync"}) =>
              /\ pc'[t] \in {"loop", "sync"}
              /\ status(ss'[t]) = status(ss[t])
              /\ ss'[t].error_message # NoError]_vars

\* the message the worker records when the device call of a setter fails
SetterFailureMessage(c) ==
    CASE c.k = "SetDigitalOutput" -> MsgSetDigitalOutput
      [] c.k = "SetAnalogOutput" -> MsgSetAnalogOutput
      [] c.k = "SetPwmDuty" -> MsgSetPwmDuty

\* C8: in the step that applies SetDigitalOutput, SetAnalogOutput or SetPwmDuty
\* (a step that is no sync), a successful device call leaves the new value in
\* the shared state; a failed one leaves the pin and PWM values as they were,
\* leaves the setter's error message, and leaves the worker running in its loop.
C8_SetterEchoedOnSuccessOnly ==
    [][\A t \in ThreadIds :
          (/\ RecvStep(t)
           /\ AppliedNow(t).k \in {"SetDigitalOutput", "SetAnalogOutput", "SetPwmDuty"}
           /\ CallsDevice(AppliedNow(t))) =>
              LET c == AppliedNow(t)
              IN  /\ last'[t].step = "cmd"
                  /\ IF ~last'[t].fail
                     THEN /\ c.k = "SetDigitalOutput" =>
                                ss'[t].pins[c.idx].digital_value_set = (IF c.flag THEN 1 ELSE 0)
                          /\ c.k = "SetAnalogOutput" => ss'[t].pins[c.idx].analog_value = c.val
                          /\ c.k = "SetPwmDuty" => ss'[t].pwm[c.idx] = c.val
                     ELSE /\ ss'[t].pins = ss[t].pins
                          /\ ss'[t].pwm = ss[t].pwm
                          /\ ss'[t].error_message = SetterFailureMessage(c)
                          /\ ss'[t].running
                          /\ pc'[t] \in {"loop", "sync"}]_vars

\* C8 witness: a SetDigitalOutput was applied with success, the pin is set in
\* the shared state and the sync of that tick has not run yet
C8_Witness ==
    /\ applied[W] # << >>
    /\ LastApplied(W).k = "SetDigitalOutput"
    /\ last[W] = Last("cmd", FALSE)
    /\ pc[W] = "sync"
    /\ ss[W].pins[1].digital_value_set = 1
    /\ ss[W].error_message = NoError

\* C9: while the worker is in the reconnect of UpdateModel(m) its status is
\* Paused and m is attached to the shared state; when the reconnect ends the
\* status is Running, m is attached to the shared state and to the device
\* handle, and a new handle is one opened with the stored descriptor.
C9_UpdateModelSwap ==
    /\ [](\A t \in ThreadIds :
            pc[t] = "reconnect" =>
                /\ LastApplied(t).k = "UpdateModel"
                /\ status(ss[t]) = "Paused"
                /\ ss[t].model = LastApplied(t).idx)
    /\ [][\A t \in ThreadIds :
            ReconnectStep(t) =>
                /\ status(ss'[t]) = "Running"
                /\ ss'[t].model = LastApplied(t).idx
                /\ device'[t].model = LastApplied(t).idx
                /\ ~last'[t].fail =>
                      /\ device'[t].open
                      /\ device'[t].index = device_type[t]
                      /\ device'[t].pins = NoDevice.pins]_vars

\* C9 witness: a paused worker on device 1 applied UpdateModel(2), reconnected
\* with success and is Running with the model on the state and on the handle
C9_Witness ==
    /\ Len(applied[W]) = 2
    /\ applied[W][1].k = "Pause"
    /\ applied[W][2] = [Cmd("UpdateModel", 2, 0, FALSE) EXCEPT !.seq = 2]
    /\ last[W] = Last("reconnect", FALSE)
    /\ status(ss[W]) = "Running"
    /\ device_type[W] = 1 /\ device[W].index = 1
    /\ ss[W].model = 2 /\ device[W].model = 2

\* the UpdateModel commands among the commands the worker thread has applied
UpdateModelsApplied(t) ==
    Cardinality({i \in DOMAIN applied[t] : applied[t][i].k = "UpdateModel"})

\* C10: a failed reconnect leaves its error message in the shared state, the
\* status Running and the thread in its loop; and the worker makes one
\* connection attempt at its start and one per UpdateModel it applies, no more.
C10_ReconnectFailureNoRetry ==
    /\ [](\A t \in ThreadIds :
            attempts[t] = (IF pc[t] \in {"none", "connect"} THEN 0 ELSE 1)
                          + UpdateModelsApplied(t)
                          - (IF pc[t] = "reconnect" THEN 1 ELSE 0))
    /\ [][\A t \in ThreadIds :
            (ReconnectStep(t) /\ last'[t].fail) =>
                /\ ss'[t].error_message = MsgReconnect
                /\ status(ss'[t]) = "Running"
                /\ pc'[t] = "sync"
                /\ device'[t] = device[t]]_vars

\* C10 witness: the reconnect failed, a later command was applied without
\* another attempt, and the worker is Running with the reconnect error
C10_Witness ==
    /\ Len(applied[W]) = 2
    /\ applied[W][1].k = "UpdateModel" /\ applied[W][2].k = "SetAnalogOutput"
    /\ attempts[W] = 2
    /\ last[W] = Last("cmd", FALSE)
    /\ ss[W].error_message = MsgReconnect
    /\ status(ss[W]) = "Running"

\* C11: no more than one handle of a worker's device is ever live at once:
\* not while the worker is built and its thread connects, and not during the
\* reconnect of UpdateModel.
C11_ExactlyOneLiveHandle ==
    \A t \in ThreadIds : handles[t] <= 1

\* C12: a step that changes the contents of a worker's shared state is a step
\* of that worker's thread, or the construction of the worker.
C12_OnlyWorkerWritesSharedState ==
    [][\A t \in ThreadIds : ss'[t] # ss[t] => (WorkerStep(t) \/ pc[t] = "none")]_vars

\* the shared state holds the pin, encoder and PWM values of the handle
Refreshed(s, d) == s.pins = d.pins /\ s.encoders = d.encoders /\ s.pwm = d.pwm

\* C13: a sync in which one hardware read failed records an error and still
\* leaves the shared state refreshed with the values the handle has read.
C13_PartialSyncRefreshesState ==
    [][\A t \in ThreadIds :
          (SyncStep(t) /\ last'[t].fail) =>
              /\ ss'[t].error_message \in {MsgSyncDigital, MsgSyncAnalog, MsgSyncEncoder,
                                           MsgInitialSync}
              /\ Refreshed(ss'[t], device'[t])]_vars

\* the number of times x occurs in the sequence q
Count(q, x) == Cardinality({i \in DOMAIN q : q[i] = x})
\* the notifications the current channel of worker t receives in this step
Delivered(t) ==
    LET n == Len(ss[t].obs)
    IN  SubSeq(ss'[t].obs[n], Len(ss[t].obs[n]) + 1, Len(ss'[t].obs[n]))
\* 1 when the two values differ
Differ(a, b) == IF a # b THEN 1 ELSE 0
\* the fields in which the snapshot s and the handle d differ
ChangedFields(s, d) ==
    {<< "digital_value_get", p >> : p \in {p \in Pins :
            s.pins[p].digital_value_get # d.pins[p].digital_value_get}}
    \cup {<< "digital_value_set", p >> : p \in {p \in Pins :
            s.pins[p].digital_value_set # d.pins[p].digital_value_set}}
    \cup {<< "analog_value", p >> : p \in {p \in Pins :
            s.pins[p].analog_value # d.pins[p].analog_value}}
    \cup {<< "encoder", i >> : i \in {i \in DOMAIN d.encoders : s.encoders[i] # d.encoders[i]}}
    \cup {<< "pwm", c >> : c \in {c \in DOMAIN d.pwm : s.pwm[c] # d.pwm[c]}}

UpdateMethods ==
    {"update", "set_digital_output", "set_analog_output", "set_pwm_duty_cycle",
     "set_custom_value", "set_error"}

\* C15: a call of update(), or of a setter that goes through it, delivers
\* exactly one FullUpdate to the subscribed observer, with or without a
\* field notification beside it; set_running and set_paused deliver none.
C15_UpdateEmitsOneFullUpdate ==
    [][(ss[W].obs # << >> /\ Len(ss'[W].obs) = Len(ss[W].obs)
        /\ last'[W].step \notin {"setup_notifications", "check_for_change"}) =>
            Count(Delivered(W), FullUpdate)
               = (IF last'[W].step \in UpdateMethods THEN 1 ELSE 0)]_vars

\* C15 witness: an earlier call delivered FullUpdate alone and left the pin
\* untouched, and set_error then delivered Error followed by one FullUpdate
C15_Witness ==
    /\ last[W].step = "set_error"
    /\ Len(ss[W].obs) = 1
    /\ ss[W].obs[1] = << FullUpdate, ErrorNote(MsgSyncDigital), FullUpdate >>
    /\ ss[W].pins[1].digital_value_set = 0

\* C16: with an observer subscribed, set_running and set_paused deliver one
\* ThreadStatus notification carrying the new status when the derived status
\* changes and nothing when it does not; set_running(true), set_paused(true),
\* set_paused(false) from the initial state thus deliver Running, Paused,
\* Running in that order.
C16_ThreadStatusOnChangeOnly ==
    [][(ss[W].obs # << >> /\ Len(ss'[W].obs) = Len(ss[W].obs)
        /\ last'[W].step \in {"set_running", "set_paused"}) =>
            Delivered(W) = (IF status(ss'[W]) # status(ss[W])
                            THEN << ThreadStatusNote(status(ss'[W])) >>
                            ELSE << >>)]_vars

\* C16 witness: the observer's channel holds the three notifications of the
\* scenario and the state is running and not paused
C16_Witness ==
    /\ Len(ss[W].obs) = 1
    /\ ss[W].obs[1] = << ThreadStatusNote("Running"), ThreadStatusNote("Paused"),
                         ThreadStatusNote("Running") >>
    /\ ss[W].running /\ ~ss[W].paused
    /\ last[W].step = "set_paused"

\* what a step appended to the channel of observer o
DeliveredTo(t, o) ==
    SubSeq(ss'[t].obs[o], Len(ss[t].obs[o]) + 1, Len(ss'[t].obs[o]))

\* C17: once two observers have been created on the same Shared State, every
\* notification a later call emits is received by both of them.
C17_BothObserversNotified ==
    [][(Len(ss[W].obs) = 2 /\ Len(ss'[W].obs) = 2
        /\ last'[W].step \notin {"setup_notifications", "check_for_change"}) =>
            DeliveredTo(W, 1) = DeliveredTo(W, 2)]_vars

\* C18: for every valid pin p and value v, after set_digital_output(p, v)
\* a read of the pin with get_digital_input(p) returns v.
C18_DigitalOutputReadBack ==
    [][\A p \in Pins, v \in BOOLEAN :
          (last'[W].step = "set_digital_output"
           /\ ss'[W] = set_digital_output(ss[W], p, v)) =>
              get_digital_input(ss'[W], p) = Some(v)]_vars

\* every getter returns None for the indices outside its array
OutOfRangeReadsAbsent(s) ==
    /\ \A pin \in {0, Len(s.pins) + 1, Len(s.pins) + 2} :
          get_digital_input(s, pin) = None /\ get_analog_input(s, pin) = None
    /\ \A i \in {NumEncoders, NumEncoders + 1} : get_encoder_value(s, i) = None
    /\ \A c \in {NumPwm, NumPwm + 1} : get_pwm_duty_cycle(s, c) = None

\* the step is a setter call with an index outside the setter's array
OutOfRangeWrite(t) ==
    \/ /\ last'[t].step = "set_digital_output"
       /\ \E pin \in {0, Len(ss[t].pins) + 1}, value \in BOOLEAN :
             ss'[t] = set_digital_output(ss[t], pin, value)
    \/ /\ last'[t].step = "set_analog_output"
       /\ \E pin \in {0, Len(ss[t].pins) + 1} : ss'[t] = set_analog_output(ss[t], pin, 1)
    \/ /\ last'[t].step = "set_pwm_duty_cycle"
       /\ ss'[t] = set_pwm_duty_cycle(ss[t], NumPwm, 1000)

\* C19: the getters return None for pin 0, for a pin above the pin array, and
\* for an encoder index or PWM channel at or above the length of its array;
\* a setter called with such an index changes no pin, encoder or PWM value
\* and delivers FullUpdate alone, without a field notification.
C19_OutOfRangeIsAbsentAndInert ==
    [][/\ OutOfRangeReadsAbsent(ss[W]) /\ OutOfRangeReadsAbsent(ss'[W])
       /\ OutOfRangeWrite(W) =>
             /\ ss'[W].pins = ss[W].pins
             /\ ss'[W].encoders = ss[W].encoders
             /\ ss'[W].pwm = ss[W].pwm
             /\ IF ss[W].obs = << >> THEN ss'[W].obs = << >>
                ELSE Delivered(W) = << FullUpdate >>]_vars

\* C19 witness: set_pwm_duty_cycle with the channel just above the PWM array
\* was the last call; the observer received FullUpdate alone and every duty
\* cycle is still 0
C19_Witness ==
    /\ last[W].step = "set_pwm_duty_cycle"
    /\ Len(ss[W].obs) = 1
    /\ ss[W].obs[1] = << FullUpdate >>
    /\ \A c \in DOMAIN ss[W].pwm : ss[W].pwm[c] = 0
    /\ get_pwm_duty_cycle(ss[W], NumPwm) = None

\* the controller's calls that look the worker up by its id
LookupOps ==
    {"send_command", "get_status", "get_state", "get_shared_state", "create_observer",
     "stop_thread"}

\* C20: send_command, get_status, get_state, get_shared_state, create_observer
\* and stop_thread called with an id that is not in the registry, never issued
\* or already stopped, return ThreadNotFound for that id, and the call leaves
\* the registry and every worker's state, channel and thread as they were.
C20_UnknownIdIsNotFound ==
    [][(ctl = Idle /\ ret' # ret /\ ret'.op \in LookupOps) =>
          /\ ret'.id \notin threads <=> ret'.res = "ThreadNotFound"
          /\ ret'.res = "ThreadNotFound" =>
                UNCHANGED << threads, ss, cmdq, worker, pc, device, thread_handle,
                             next_thread_id, sentTo >>]_vars

\* C20 witness: create_observer returned ThreadNotFound for id 1, issued and
\* stopped before, while worker 2 is registered and running
C20_Witness ==
    /\ ret = Ret("create_observer", 1, "ThreadNotFound")
    /\ thread_handle[1] = "joined"
    /\ threads = {2}
    /\ status(ss[2]) = "Running"
    /\ ss[1].obs = << >>

\* C21: send_command to a registered worker whose thread has exited returns
\* CommandSendFailed and changes no worker's channel, status or Shared State,
\* while send_command to a registered worker whose thread runs returns Ok,
\* appends to that worker's channel alone and leaves every Shared State as
\* it was.
C21_SendFailureIsolated ==
    [][(ctl = Idle /\ ret' # ret /\ ret'.op = "send_command" /\ ret'.id \in threads) =>
          IF ReceiverAlive(ret'.id)
          THEN /\ ret'.res = "Ok"
               /\ Len(cmdq'[ret'.id]) = Len(cmdq[ret'.id]) + 1
               /\ \A t \in ThreadIds \ {ret'.id} : cmdq'[t] = cmdq[t]
               /\ UNCHANGED << ss, pc, worker, threads, device >>
          ELSE /\ ret'.res = "CommandSendFailed"
               /\ UNCHANGED << cmdq, ss, pc, worker, threads, device, thread_handle >>]_vars

\* C21 witness: worker 1 left its thread after a Terminate command and is
\* still registered, a later send_command to it failed, and worker 2 is
\* registered and Running
C21_Witness ==
    /\ ret = Ret("send_command", 1, "CommandSendFailed")
    /\ pc[1] = "done"
    /\ threads = {1, 2}
    /\ status(ss[2]) = "Running"
    /\ pc[2] \in {"loop", "sync"}

\* C22: a start call returns the value of the id counter and moves the
\* counter up by one, the counter never goes down, and every registered id is
\* below it: the ids of successful starts are pairwise distinct, increase in
\* call order, and an id removed by stop_thread or stop_all is not issued again.
C22_ThreadIdsUniqueIncreasing ==
    [][/\ next_thread_id' >= next_thread_id
       /\ \A id \in threads' : id < next_thread_id'
       /\ (ret' # ret /\ ret'.op = "start_thread") =>
             /\ ret'.id = next_thread_id
             /\ next_thread_id' = next_thread_id + 1
             /\ ret'.id \notin threads
             /\ thread_handle[ret'.id] = "none"
             /\ ret'.res = "Ok" => threads' = threads \cup {ret'.id}]_vars

\* C22 witness: id 1 was issued, stopped and joined, and the start after that
\* returned id 2
C22_Witness ==
    /\ ret = Ret("start_thread", 2, "Ok")
    /\ thread_handle[1] = "joined"
    /\ threads = {2}
    /\ next_thread_id = 3

\* a command the worker turns down for its parameter before any device call
RejectedParameter(c) ==
    \/ c.k = "SetPwmDuty" /\ c.idx > 5
    \/ c.k = "ConfigureEncoder" /\ c.val > 255

\* C23: every command that fails on the worker, by a failed device call or
\* by a rejected parameter, leaves an error in the error field of Shared
\* State and delivers a notification to the subscribed observer.
C23_CommandFailureRecordedAndNotified ==
    [][\A t \in ThreadIds :
          (RecvStep(t) /\ (last'[t].fail \/ RejectedParameter(AppliedNow(t)))) =>
              /\ ss'[t].error_message # NoError
              /\ IF ss[t].obs = << >> THEN TRUE ELSE Delivered(t) # << >>]_vars

\* C24: when set_global_log_level or stop_all returns, with Ok or with an
\* error, every registered worker whose thread holds its receiver has been
\* sent the command of the call, whatever failed before its turn.
C24_AggregateCallsReachEveryWorker ==
    [][(ctl = Idle /\ ret' # ret /\ ret'.op \in {"set_global_log_level", "stop_all"}) =>
          \A t \in threads :
              ReceiverAlive(t) =>
                  /\ Len(sentTo'[t]) = Len(sentTo[t]) + 1
                  /\ sentTo'[t][Len(sentTo'[t])].k =
                        (IF ret'.op = "stop_all" THEN "Terminate" ELSE "SetLogLevel")]_vars

\* the thread of worker t has exited on an explicit Terminate command
ExitedOnTerminate(t) ==
    pc[t] = "done" /\ applied[t] # << >> /\ LastApplied(t).k = "Terminate"

\* C25: stop_all returns Ok when some registered worker's thread has already
\* exited on an earlier Terminate command and every other registered worker
\* still runs.
C25_StopAllOkAfterTerminate ==
    [][(/\ ctl = Idle /\ ret' # ret /\ ret'.op = "stop_all"
        /\ \E t \in threads : ExitedOnTerminate(t)
        /\ \A t \in threads : ReceiverAlive(t) \/ ExitedOnTerminate(t)) =>
            ret'.res = "Ok"]_vars

\* a step of the watcher's callback for worker t on channel g; a step of the
\* forwarding thread of that channel
CallbackStep(t, g) ==
    g \in DOMAIN relay[t] /\ Len(relay'[t]) = Len(relay[t])
    /\ Len(relay'[t][g]) = Len(relay[t][g]) + 1
ForwardStep(t, g) ==
    g \in DOMAIN relay[t] /\ Len(relay'[t]) = Len(relay[t])
    /\ Len(relay'[t][g]) = Len(relay[t][g]) - 1

\* the callback puts one model on the channel of the stored monitor of its
\* worker and touches neither a command channel nor a Shared State nor a handle
CallbackOnlyRelays(t, g) ==
    /\ g = model_monitors[t]
    /\ SubSeq(relay'[t][g], 1, Len(relay[t][g])) = relay[t][g]
    /\ \A u \in ThreadIds \ {t} : relay'[u] = relay[u]
    /\ UNCHANGED << cmdq, ss, device, pc >>

\* the forwarding thread takes the oldest model of its channel and appends one
\* UpdateModel carrying it to the channel of worker t and of no other worker
ForwardedToOwner(t, g) ==
    /\ relay'[t][g] = Tail(relay[t][g])
    /\ Len(cmdq'[t]) = Len(cmdq[t]) + 1
    /\ cmdq'[t][Len(cmdq'[t])].k = "UpdateModel"
    /\ cmdq'[t][Len(cmdq'[t])].idx = relay[t][g][1]
    /\ SubSeq(cmdq'[t], 1, Len(cmdq[t])) = cmdq[t]
    /\ \A u \in ThreadIds \ {t} : cmdq'[u] = cmdq[u]
    /\ UNCHANGED << ss, device >>

\* C26 as stated: every callback of the watcher ends as exactly one UpdateModel
\* on the channel of the owning worker and of no other, the commands arrive in
\* the order of the callbacks, and the watcher's thread touches neither the
\* Shared State nor the handle.
C26_EveryModelChangeRelayedInOrder ==
    [][\A t \in ThreadIds, g \in 1..MaxMonitorStarts :
          /\ CallbackStep(t, g) => CallbackOnlyRelays(t, g)
          /\ ForwardStep(t, g) =>
                /\ ForwardedToOwner(t, g)
                /\ \A h \in 1..(g - 1) : relay[t][h] = << >>]_vars

\* C26 amended: the same while the thread of the owning worker holds its
\* receiver, with the order kept among the callbacks of one monitoring session;
\* a model forwarded after the worker's thread has exited is dropped.
C26_ModelChangeRelayedPerSession ==
    [][\A t \in ThreadIds, g \in 1..MaxMonitorStarts :
          /\ CallbackStep(t, g) => CallbackOnlyRelays(t, g)
          /\ ForwardStep(t, g) =>
                IF ReceiverAlive(t) THEN ForwardedToOwner(t, g)
                ELSE relay'[t][g] = Tail(relay[t][g]) /\ UNCHANGED << cmdq, ss, device >>]_vars

\* C26 witness: two callbacks for worker 1 carried model 1 and then model 2;
\* worker 1 has applied UpdateModel(1) and UpdateModel(2) in that order and
\* worker 2, registered and monitored, was sent nothing
C26_Witness ==
    /\ Len(applied[1]) = 2
    /\ applied[1][1].k = "UpdateModel" /\ applied[1][1].idx = 1
    /\ applied[1][2].k = "UpdateModel" /\ applied[1][2].idx = 2
    /\ ss[1].model = 2
    /\ threads = {1, 2} /\ model_monitors[2] > 0
    /\ sentTo[2] = << >>

C28_LifecycleTransitions ==
    [][ /\ ( /\ RecvStep(W)
             /\ AppliedNow(W).k \in {"Start", "Restart"}
             /\ status(ss[W]) \in {"Running", "Paused"} ) =>
                (ss'[W].running /\ ~ss'[W].paused)
        /\ pc[W] = "done" => (pc'[W] = "done" /\ status(ss'[W]) = "Stopped")
        /\ status(ss'[W]) # status(ss[W]) =>
              \/ status(ss[W]) = "Stopped" /\ status(ss'[W]) = "Running" /\ pc[W] = "connect"
              \/ status(ss[W]) = "Running" /\ status(ss'[W]) = "Paused"
              \/ status(ss[W]) = "Paused" /\ status(ss'[W]) = "Running"
              \/ status(ss'[W]) = "Stopped" /\ pc'[W] = "done" ]_vars

\* the worker was paused, resumed by Start, and its thread has exited on Terminate
C28_Witness ==
    /\ Len(applied[W]) = 3
    /\ applied[W][1].k = "Pause"
    /\ applied[W][2].k = "Start"
    /\ applied[W][3].k = "Terminate"
    /\ pc[W] = "done"
    /\ status(ss[W]) = "Stopped"

\* C29: each call of a convenience setter with an in-range index delivers its
\* field-specific notification first and the FullUpdate after it, on every
\* call: a repeated call with the value already stored delivers both again.
C29_SetterNotifiesOnEveryCall ==
    [][ ( /\ ss[W].obs # << >>
          /\ last'[W].step = ret'.op
          /\ \/ ret'.op = "set_pwm_duty_cycle" /\ ret'.id < NumPwm
             \/ ret'.op = "set_analog_output" /\ ret'.id > 0 /\ ret'.id <= NumPins ) =>
            Delivered(W) =
                << IF ret'.op = "set_pwm_duty_cycle"
                   THEN PwmDutyCycleNote(ret'.id, ret'.res)
                   ELSE AnalogOutputNote(ret'.id, ret'.res),
                   FullUpdate >> ]_vars

\* set_pwm_duty_cycle(0, 1000) was called twice and nothing was read: the
\* observer's channel holds two PwmDutyCycle notifications, each followed by
\* a FullUpdate
C29_Witness ==
    /\ ss[W].obs = << << PwmDutyCycleNote(0, 1000), FullUpdate,
                         PwmDutyCycleNote(0, 1000), FullUpdate >> >>
    /\ ss[W].pwm[0] = 1000
    /\ ret = Ret("set_pwm_duty_cycle", 0, 1000)

\* C30: after stop_model_monitoring(id) has returned Ok the worker has no
\* monitor; while it has none, no change of the model file is relayed, and
\* once the models relayed earlier are forwarded and processed the worker's
\* model no longer changes; start_model_monitoring(id) returning Ok connects a
\* new, empty intermediate channel, through which model changes reach the
\* worker again.
C30_StopEndsAndStartResumesModelUpdates ==
    [][ /\ (ret'.op = "stop_model_monitoring" /\ ret'.res = "Ok") =>
               model_monitors'[ret'.id] = 0
        /\ \A t \in ThreadIds :
              (model_monitors[t] = 0 /\ model_monitors'[t] = 0) =>
                  /\ \A g \in DOMAIN relay[t] : Len(relay'[t][g]) <= Len(relay[t][g])
                  /\ (Relayed(t) = 0 /\ cmdq[t] = << >>) =>
                        (cmdq'[t] = << >> /\ ss'[t].model = ss[t].model)
        /\ ( /\ ret'.op = "start_model_monitoring" /\ ret'.res = "Ok"
             /\ Len(relay'[ret'.id]) > Len(relay[ret'.id]) ) =>
               /\ model_monitors'[ret'.id] = Len(relay'[ret'.id])
               /\ relay'[ret'.id][model_monitors'[ret'.id]] = << >> ]_vars

\* worker 1 was monitored in two sessions and has applied a model change of
\* each; stop_model_monitoring(1) has then returned Ok: the worker has no
\* monitor, nothing is waiting, and the worker keeps the last model
C30_Witness ==
    /\ ret = Ret("stop_model_monitoring", 1, "Ok")
    /\ model_monitors[1] = 0
    /\ relay[1] = << << >>, << >> >>
    /\ Len(applied[1]) = 2
    /\ applied[1][2].k = "UpdateModel"
    /\ ss[1].model = applied[1][2].idx
    /\ ss[1].model # applied[1][1].idx
    /\ pc[1] \in {"loop", "sync"}

\* C31: with a model attached to the worker, the controller's
\* set_digital_output on a pin of that worker answers Ok exactly when the
\* model gives the pin the DigitalOutput capability, and get_digital_input
\* answers Ok exactly when the model gives it DigitalInput.
C31_OperationsValidatedAgainstModel ==
    [][ ( /\ ret' # ret
          /\ ret'.op \in {"set_digital_output", "get_digital_input"}
          /\ ret'.id \in threads
          /\ ret'.pin \in Pins
          /\ ReceiverAlive(ret'.id)
          /\ ss[ret'.id].model # NoModel ) =>
            ( ret'.res = "Ok" <=>
                (IF ret'.op = "set_digital_output" THEN "DigitalOutput" ELSE "DigitalInput")
                    \in Capabilities(ss[ret'.id].model) ) ]_vars

\* C32: once build_usb_device has returned Ok, and before the caller does
\* anything else, the worker's status() is Running, wherever the spawned
\* worker thread stands.
C32_RunningWhenBuildReturns ==
    ret = Ret("build", W, "Ok") => status(ss[W]) = "Running"

\* C33: creating a new observer replaces the previous subscription.  From
\* then on no step adds a notification to the channel of an earlier observer
\* (it can only be drained, and once empty it stays empty, so the observer's
\* reads return absent), and a set_error call delivers its notifications to
\* the most recently created observer.
C33_NewObserverReplacesSubscription ==
    [][ /\ \A o \in DOMAIN ss[W].obs :
              o < Len(ss'[W].obs) => Len(ss'[W].obs[o]) <= Len(ss[W].obs[o])
        /\ (ss[W].obs # << >> /\ last'[W].step = "set_error") =>
              Len(ss'[W].obs[Len(ss[W].obs)]) = Len(ss[W].obs[Len(ss[W].obs)]) + 2 ]_vars

\* the first observer received the status change made while it was the
\* subscriber; a second observer was created, and a set_error call has
\* delivered its notifications to the second only
C33_Witness ==
    /\ Len(ss[W].obs) = 2
    /\ ss[W].obs[1] = << ThreadStatusNote("Running") >>
    /\ ss[W].obs[2] = << ErrorNote(MsgSyncDigital), FullUpdate >>
    /\ last[W].step = "set_error"

\* C34: after every sync that returned Ok (every read succeeded, or only an
\* encoder read failed) the pins, encoders and PWM values of the Shared State
\* are those the device handle holds; a value an earlier echo wrote that the
\* handle does not hold is gone.
C34_SyncCopiesHandle ==
    [][ ( /\ SyncStep(W)
          /\ (~last'[W].fail \/ ss'[W].error_message = MsgSyncEncoder) ) =>
            /\ ss'[W].pins = device'[W].pins
            /\ ss'[W].encoders = device'[W].encoders
            /\ ss'[W].pwm = device'[W].pwm ]_vars

\* SetDigitalOutput(1, true) was echoed into the Shared State, UpdateModel
\* replaced the handle by a new one that does not hold the output, and the
\* sync after it has replaced the echo by the handle's value
C34_Witness ==
    /\ Len(applied[W]) = 2
    /\ applied[W][1].k = "SetDigitalOutput" /\ applied[W][1].idx = 1
    /\ applied[W][2].k = "UpdateModel"
    /\ last[W] = Last("sync", FALSE)
    /\ ss[W].error_message = NoError
    /\ ss[W].pins[1].digital_value_set = 0
    /\ device[W].pins[1].digital_value_set = 0

LoopSyncFailed ==
    /\ pc[W] = "sync" /\ pc'[W] = "loop"
    /\ last'[W].step = "sync" /\ last'[W].fail
    /\ ss'[W].error_message \in {MsgSyncDigital, MsgSyncAnalog}

\* a sync, the initial one included, has returned Ok
SyncReturnedOk ==
    /\ pc[W] \in {"init_sync", "sync"} /\ pc'[W] = "loop"
    /\ last'[W].step = "sync"
    /\ (~last'[W].fail \/ ss'[W].error_message = MsgSyncEncoder)

C37_NothingAppliedAfterTerminate ==
    [][ (\E i \in 1..Len(applied[W]) : applied[W][i].k = "Terminate") =>
          /\ pc[W] = "done" /\ pc'[W] = "done"
          /\ applied'[W] = applied[W]
          /\ device'[W] = device[W]
          /\ ss'[W] = ss[W] ]_vars

\* the worker has left its loop on a Terminate and a command sent after the
\* Terminate is still in the channel
C37_Witness ==
    /\ pc[W] = "done"
    /\ Len(applied[W]) = 1 /\ applied[W][1].k = "Terminate"
    /\ Len(cmdq[W]) = 1 /\ cmdq[W][1].k = "SetDigitalOutput"
    /\ Len(sentTo[W]) = 2
    /\ status(ss[W]) = "Stopped"

\* C38: every thread id that has a model monitor registered in model_monitors
\* is the id of a worker registered in threads.
C38_MonitorsBelongToRegisteredWorkers ==
    \A id \in ThreadIds : model_monitors[id] # 0 => id \in threads

\* C39: when the connection attempt of a registered worker's thread fails, the
\* step records the connection error, leaves the status Stopped and ends the
\* thread with nothing applied and the registry unchanged; from then on the
\* worker applies nothing and touches neither the handle nor its shared state,
\* and a send_command to its id, which is still found, fails with
\* CommandSendFailed and queues nothing.
C39_FailedConnectEndsWorkerKeepsId ==
    [][ \A t \in ThreadIds :
          /\ (pc[t] = "connect" /\ pc'[t] # "init_sync" /\ pc'[t] # "connect") =>
                /\ pc'[t] = "done"
                /\ ss'[t].error_message = MsgConnect
                /\ status(ss'[t]) = "Stopped"
                /\ applied'[t] = << >> /\ cmdq'[t] = cmdq[t]
                /\ threads' = threads
          /\ (pc[t] = "done" /\ applied[t] = << >>) =>
                /\ pc'[t] = "done" /\ applied'[t] = << >>
                /\ ss'[t] = ss[t] /\ device'[t] = device[t]
                /\ status(ss[t]) = "Stopped" /\ ss[t].error_message = MsgConnect
                /\ (ret' # ret /\ ret'.op = "send_command" /\ ret'.id = t /\ t \in threads) =>
                      ret'.res = "CommandSendFailed" /\ cmdq'[t] = cmdq[t] ]_vars

\* worker 1 was sent a command before its thread tried to connect; the
\* connection failed, the command is still in the channel, the id is still
\* registered, and a later send_command to it has failed
C39_Witness ==
    /\ last[1] = Last("connect", TRUE)
    /\ pc[1] = "done" /\ applied[1] = << >>
    /\ Len(cmdq[1]) = 1
    /\ 1 \in threads
    /\ status(ss[1]) = "Stopped" /\ ss[1].error_message = MsgConnect
    /\ ret = Ret("send_command", 1, "CommandSendFailed")

\* C40: stop_all can be called whenever the controller is idle and returns in
\* the step that sends the Terminates, with the registry empty and before any
\* worker has moved; and every worker that accepted a Terminate from stop_all
\* or from the drop of the controller eventually has status Stopped and its
\* thread has exited.
C40_StopAllDoesNotWaitAndWorkersExit ==
    /\ [](ctl = Idle => ENABLED stop_all)
    /\ [][ (ret' # ret /\ ret'.op \in {"stop_all", "drop"}) =>
              /\ pc' = pc /\ ss' = ss /\ thread_handle' = thread_handle
              /\ threads' = {}
              /\ ret'.op = "stop_all" => ctl' = Idle ]_vars
    /\ \A t \in ThreadIds :
          ( /\ ret.op \in {"stop_all", "drop"}
            /\ \E i \in 1..Len(sentTo[t]) : sentTo[t][i].k = "Terminate" )
          ~> (pc[t] = "done" /\ status(ss[t]) = "Stopped")

\* stop_all has returned Ok and, after it, both workers have left their loops
\* on its Terminate, the first of them having been paused before
C40_Witness ==
    /\ ret = Ret("stop_all", 0, "Ok")
    /\ threads = {}
    /\ \A t \in ThreadIds :
          /\ pc[t] = "done" /\ status(ss[t]) = "Stopped"
          /\ applied[t] # << >> /\ applied[t][Len(applied[t])].k = "Terminate"
    /\ Len(applied[1]) = 2 /\ applied[1][1].k = "Pause"

====
